---------------------------- MODULE Spec2Model ----------------------------
(***************************************************************************)
(* A model of the L1TF demonstrator (l1tf.cpp, kvm.hpp, guest.asm):        *)
(* the value_reconstructor, the page_table, l1tf_leaker::try_leak_dword,   *)
(* the cache_loader with its priming thread, and the driving loop of main. *)
(*                                                                         *)
(* Machine words are modelled as the set of their set bit positions: a     *)
(* uint32_t is a subset of 0..31, a uint64_t a subset of 0..63.  Bitwise   *)
(* and/or/not are intersection/union/complement, addition is a ripple      *)
(* carry over the 64 positions (so it wraps modulo 2^64 as in the code).   *)
(***************************************************************************)
EXTENDS Integers, Sequences, FiniteSets, Bags, TLC

VARIABLES
  freq,            \* value_reconstructor::freq, 32 pairs (first, second)
  recorded,        \* history: the bag of samples passed to record_attempt
  tables_,         \* page_table::tables_, the words written since memset
  regs,            \* the registers last given to KVM_SET_REGS (kvm_regs)
  state,           \* the kvm_run area: exit_reason, io.port, io.size
  pc,              \* position of the main thread
  proc,            \* "running", or "exited" once exit() or return ran
  exit_status,     \* the status the process ended with
  page_offset_base,\* main: argv[1]
  phys_addr,       \* main: argv[2]
  size,            \* main: argv[5] or the default
  offset,          \* main: the word loop's counter
  phys,            \* main: the address of the current word
  leaked_value,    \* main: the estimate of the current word
  tries,           \* main: the retry loop's counter
  i,               \* main: the sampling loop's counter
  output,          \* the words written to std::cout so far
  target_kva_,     \* cache_loader::target_kva_ (atomic)
  lpc,             \* position of the loader thread
  cycles,          \* history: cache_loader objects constructed so far
  gadget,          \* history: the loader's latest gadget call, address and result
  victim_pa,       \* history: argument of the latest set_victim_pa call
  rounds,          \* history: retry rounds completed for the current word
  runs,            \* history: guest runs started for the current word
  allZero,         \* history: every sample returned so far was Silent
  last,            \* history: what the latest try_leak_dword call did
  cpu,             \* the vCPU: its registers, and whether the guest runs
  image,           \* guest_code, the memory mapped at guest-physical 0
  trace,           \* history: what the guest did in the current run
  cpuid_leafs,     \* enable_rdtscp: the list KVM_GET_SUPPORTED_CPUID reports
  vcpu_cpuid,      \* the list KVM_SET_CPUID2 has given to the vCPU
  timer,           \* timeout_vm::timer: armed or not, and the arm_timer calls so far
  sigusr1,         \* the timers (by arm_timer call) whose SIGUSR1 is pending
  vcpu_,           \* timeout_vm::vcpu_: in guest mode or not, RAX, exit_reason
  ends             \* history: how each returned run() of the timer demo ended

reconVars  == <<freq, recorded>>
guestVars  == <<cpu, image, trace>>
vmVars     == <<tables_, regs, state, victim_pa, last, guestVars>>
cpuidVars  == <<cpuid_leafs, vcpu_cpuid>>
\* what main's steps and the loader thread leave as it is: the arguments,
\* and the state of the operations that are followed on their own
timerVars  == <<timer, sigusr1, vcpu_, ends>>
argVars    == <<page_offset_base, phys_addr, size, cpuidVars, timerVars>>
loopVars   == <<offset, phys, leaked_value, tries, i, rounds, runs>>
mainVars   == <<pc, proc, exit_status, argVars, loopVars, output, allZero>>
loaderVars == <<target_kva_, lpc, cycles, gadget>>
vars       == <<reconVars, vmVars, mainVars, loaderVars>>

---------------------------------------------------------------------------
(* Machine words as bit sets                                               *)

W32 == 0..31
W64 == 0..63

\* the word whose value is the natural number n (n < 2^31)
Bits(n) == {k \in 0..30 : (n \div (2^k)) % 2 = 1}

RECURSIVE AddFrom(_, _, _, _)
AddFrom(a, b, k, carry) ==
  IF k = 64 THEN {}
  ELSE LET s == (IF k \in a THEN 1 ELSE 0) + (IF k \in b THEN 1 ELSE 0) + carry
       IN  (IF s % 2 = 1 THEN {k} ELSE {}) \cup AddFrom(a, b, k + 1, s \div 2)

\* uint64_t addition, modulo 2^64
Add64(a, b) == AddFrom(a, b, 0, 0)

SetMax(S) == CHOOSE x \in S : \A y \in S : y <= x

\* uint64_t a < b
Less64(a, b) == a # b /\ SetMax((a \ b) \cup (b \ a)) \in b

\* (uint32_t) of a 64 bit register
Trunc32(a) == a \cap W32

AllOnes64 == W64


---------------------------------------------------------------------------
(* value_reconstructor                                                     *)

NBits == 32

BitPos == 0..(NBits - 1)

\* std::array<std::pair<int, int>, 32> freq {}
FreshFreq == [b \in BitPos |-> [first |-> 0, second |-> 0]]

\* variant of the loop body that takes value's bit without looking at sureness
RecordBitUnsure(f, e, bit_pos) ==
  IF bit_pos \in e.value
  THEN [f EXCEPT ![bit_pos] = [first |-> @.first, second |-> @.second + 1]]
  ELSE [f EXCEPT ![bit_pos] = [first |-> @.first + 1, second |-> @.second]]

\* variant of the loop body with the two counters of the pair exchanged
RecordBitSwapped(f, e, bit_pos) ==
  IF bit_pos \notin e.sureness THEN f
  ELSE IF bit_pos \in e.value
       THEN [f EXCEPT ![bit_pos] = [first |-> @.first + 1, second |-> @.second]]
       ELSE [f EXCEPT ![bit_pos] = [first |-> @.first, second |-> @.second + 1]]

\* one pass of the loop body of record_attempt for bit_pos
RecordBit(f, e, bit_pos) ==
  IF bit_pos \notin e.sureness
  THEN f
  ELSE IF bit_pos \in e.value
       THEN [f EXCEPT ![bit_pos] = [first |-> @.first, second |-> @.second + 1]]
       ELSE [f EXCEPT ![bit_pos] = [first |-> @.first + 1, second |-> @.second]]

\* variant of record_attempt whose loop stops one bit short
record_attempt_short(f, e) ==
  [bit_pos \in BitPos |->
     IF bit_pos < NBits - 1 THEN RecordBit(f, e, bit_pos)[bit_pos] ELSE f[bit_pos]]

\* value_reconstructor::record_attempt(e): the counters after the call.
\* The pass for bit_pos reads and writes freq[bit_pos] alone, so the loop
\* is the pointwise application of its body.
record_attempt(f, e) == [bit_pos \in BitPos |-> RecordBit(f, e, bit_pos)[bit_pos]]

\* variant of get_most_likely_value that resolves a tie to 1
get_most_likely_value_ge(f) == {bit_pos \in BitPos : f[bit_pos].second >= f[bit_pos].first}

\* value_reconstructor::get_most_likely_value(): the bits or-ed into
\* reconstructed by the loop
get_most_likely_value(f) ==
  {bit_pos \in BitPos : f[bit_pos].second > f[bit_pos].first}

---------------------------------------------------------------------------
(* page_table                                                              *)

page_size == 4096

\* variant of page_pws with present and writable only: no accessed, no dirty
page_pws_fresh == 1 + 2
page_pws == 99       \* 0x63

page_large == 128    \* 0x80

\* sizeof(guest_code): one page of code, then target0 and target1
page_table_base == 12288

\* the mask page_size - 1
OffsetMask == Bits(page_size - 1)

\* index in tables_ (in uint64_t words) of the first entry of each level
pml4 == 0
pdpt == 1 * (page_size \div 8)
pd   == 2 * (page_size \div 8)
pt   == 3 * (page_size \div 8)

\* tables_ holds the words written since memset(tables_, 0, ...); a word
\* that was never written reads as zero
Rd(T, k) == IF k \in DOMAIN T THEN T[k] ELSE {}
Wr(T, k, v) == [j \in (DOMAIN T) \cup {k} |-> IF j = k THEN v ELSE T[j]]

ZeroFilled == [k \in {} |-> {}]

\* variant of get_victim_gva that does not mask the page offset
get_victim_gva_nomask(pa) == pa \cup {30}

\* page_table::get_victim_gva(pa)
get_victim_gva(pa) == (pa \cap OffsetMask) \cup {30}

\* variant of set_victim_pa that toggles the entry instead of storing it
set_victim_pa_xor(T, pa) ==
  LET entry == (pa \ OffsetMask) \cup Bits(96)
      old == Rd(T, pt + 0)
  IN  Wr(T, pt + 0, (old \ entry) \cup (entry \ old))

\* variant of set_victim_pa that stores the entry with its present bit set
set_victim_pa_present(T, pa) == Wr(T, pt + 0, (pa \ OffsetMask) \cup Bits(97))

\* page_table::set_victim_pa(pa): tables_ after the call
set_victim_pa(T, pa) == Wr(T, pt + 0, (pa \ OffsetMask) \cup Bits(96))

\* variant of page_table_ctor with the two second-level entries exchanged
page_table_ctor_swapped(gpa) ==
  LET T0 == ZeroFilled
      T1 == Wr(T0, pml4 + 0, Bits(gpa + page_size) \cup Bits(page_pws))
      T2 == Wr(T1, pdpt + 1, Bits(0) \cup Bits(page_pws) \cup Bits(page_large))
      T3 == Wr(T2, pdpt + 0, Bits(gpa + 2 * page_size) \cup Bits(page_pws))
      T4 == Wr(T3, pd + 0, Bits(gpa + 3 * page_size) \cup Bits(page_pws))
  IN  Wr(T4, pt + 0, {})

\* page_table::page_table(kvm, gpa): tables_ after construction
page_table_ctor(gpa) ==
  LET T0 == ZeroFilled
      T1 == Wr(T0, pml4 + 0, Bits(gpa + page_size) \cup Bits(page_pws))
      T2 == Wr(T1, pdpt + 0, Bits(0) \cup Bits(page_pws) \cup Bits(page_large))
      T3 == Wr(T2, pdpt + 1, Bits(gpa + 2 * page_size) \cup Bits(page_pws))
      T4 == Wr(T3, pd + 0, Bits(gpa + 3 * page_size) \cup Bits(page_pws))
  IN  Wr(T4, pt + 0, {})

\* the entries of one level of the hierarchy (512 words from its base)
Level(T, base) == [k \in 0..((page_size \div 8) - 1) |-> Rd(T, base + k)]

---------------------------------------------------------------------------
(* Inputs                                                                  *)

\* 0xffff888000000000, the start of the kernel's linear mapping
LinearMapBase == {39, 43} \cup (47..63)

PageOffsetBases == {LinearMapBase}

\* 0xd0ffe (the second word lies in the next page) and 2^64 - 4 (the
\* second word wraps around to address 0)
PhysAddrs == {(1..11) \cup {16, 18, 19}, 2..63}

MaxSize == 8

\* the words of a range of MaxSize bytes
MaxWords == (MaxSize + 3) \div 4

\* the byte counts: none, one that is no multiple of 4, and MaxSize
Sizes == {Bits(0), Bits(MaxSize - 5), Bits(MaxSize)}

\* what one guest run can report in R9 (value) and R11 (sureness):
\* nothing at all, or bit 0 read as a confident 1
Silent == [value |-> {}, sureness |-> {}]
SureOne == [value |-> {0}, sureness |-> {0}]
GuestSamples == {Silent, SureOne}

guest_result_port == 0

\* the exit the host expects from the guest's OUT instruction
ExpectedExit == [exit_reason |-> "KVM_EXIT_IO", port |-> guest_result_port, size |-> 4]

\* the exit states a return of KVM_RUN can leave in the kvm_run area
ExitStates ==
  { ExpectedExit,
    [exit_reason |-> "KVM_EXIT_IO", port |-> guest_result_port, size |-> 2],
    [exit_reason |-> "KVM_EXIT_IO", port |-> 1, size |-> 4],
    [exit_reason |-> "KVM_EXIT_HLT", port |-> guest_result_port, size |-> 4],
    [exit_reason |-> "KVM_EXIT_SHUTDOWN", port |-> 1, size |-> 1] }

NoExit == [exit_reason |-> "none", port |-> 0, size |-> 0]

\* kvm_regs regs {}
ZeroRegs == [rflags |-> {}, rdi |-> {}, rip |-> {}, r9 |-> {}, r11 |-> {}]

None == "none"

\* victim_pa before the first set_victim_pa call: not an address
NoVictim == {-1}

NoCall == [called |-> FALSE, pa |-> {}, exit |-> NoExit, returned |-> FALSE]

\* guest.inc as it is mapped: the code, and the two probe lines target0 and
\* target1, whose first dwords are 0
guest_code == [text |-> "guest.inc", target0 |-> 0, target1 |-> 0]

\* the vCPU before any KVM_SET_REGS: not in guest mode, registers zero.
\* rip is the label of the instruction it points to, r8 a small number,
\* rbx and r10 the probe line they point to, r9, r11 and rdi words; txn is
\* the state a transaction would roll back to and the writes it holds back.
NoTxn == [active |-> FALSE, rbx |-> "none", writes |-> <<>>]
ResetCpu ==
  [mode |-> "host", rip |-> "entry", rdi |-> {}, r8 |-> 0, r9 |-> {},
   r11 |-> {}, rbx |-> "none", r10 |-> "none", txn |-> NoTxn]

\* nothing recorded of a run
NoTrace == [obs |-> <<>>, probes |-> <<>>, outs |-> 0, walks |-> {}]

---------------------------------------------------------------------------
(* Process termination                                                     *)

EXIT_SUCCESS == 0
EXIT_FAILURE == 1

\* exit(status), or the return from main: the process is gone, and with it
\* both threads, the loops' locals, the reconstructor and the loader object.
\* What was written to std::cout stays, and so do the arguments and the
\* history variables (that of the gadget calls is left to the caller).
Exit(status) ==
  /\ proc' = "exited"
  /\ exit_status' = status
  /\ pc' = "exited"
  /\ lpc' = "exited"
  /\ freq' = FreshFreq
  /\ offset' = {}
  /\ phys' = {}
  /\ leaked_value' = {}
  /\ tries' = 0
  /\ i' = 0
  /\ target_kva_' = {}
  /\ rounds' = 0
  /\ runs' = 0
  /\ UNCHANGED <<recorded, argVars, output, cycles>>

Terminate(status) == Exit(status) /\ UNCHANGED gadget

\* die_on(is_failure, name) with is_failure true: perror and exit(EXIT_FAILURE)
die_on == Terminate(EXIT_FAILURE)

---------------------------------------------------------------------------
(* cache_loader                                                            *)

\* gadget holds the address and the result of the thread's latest gadget
\* call.  The two values that stand for no call: the thread of this
\* cache_loader has not called the gadget yet; the calls are not recorded
NoGadget == [kva |-> {-1}, rc |-> 0, errno |-> "none"]
Untracked == [kva |-> {-2}, rc |-> 0, errno |-> "none"]

\* gadget after the thread has called the gadget with kva and got r
Invoked(kva, r) ==
  IF gadget = Untracked THEN Untracked
  ELSE [kva |-> kva, rc |-> r.rc, errno |-> r.errno]

\* variant of the constructor whose target starts at 1
cache_loader_ctor_one ==
  /\ target_kva_' = {0}
  /\ lpc' = "set_cpu"
  /\ cycles' = cycles + 1
  /\ gadget' = IF gadget = Untracked THEN Untracked ELSE NoGadget

\* cache_loader::cache_loader: target_kva_ {0}, and the thread starts
cache_loader_ctor ==
  /\ target_kva_' = {}
  /\ lpc' = "set_cpu"
  /\ cycles' = cycles + 1
  /\ gadget' = IF gadget = Untracked THEN Untracked ELSE NoGadget

\* variant of set_phys_address that publishes the physical address itself
set_phys_address_nobase(pa) == target_kva_' = pa

\* cache_loader::set_phys_address(pa)
set_phys_address(pa) == target_kva_' = Add64(pa, page_offset_base)

\* variant of the destructor that publishes 0 instead of the sentinel
dtor_publish_zero == target_kva_' = {}

\* cache_loader::~cache_loader, first statement: ask the thread to exit
dtor_publish == target_kva_' = AllOnes64

\* variant of the join that returns once the thread has been started
dtor_join_early == lpc # "unborn"

\* cache_loader::~cache_loader, prime_thread.join() returning
dtor_join == lpc = "done"

\* the sentinel that ends the loop of cache_prime_thread
Sentinel == AllOnes64

\* cache_prime_thread: set_cpu(cpu_)
cache_prime_set_cpu ==
  /\ proc = "running"
  /\ lpc = "set_cpu"
  /\ \E rc \in {0, 22} :
       IF rc # 0
       THEN /\ die_on
            /\ UNCHANGED <<vmVars, allZero>>
       ELSE /\ lpc' = "loop"
            /\ UNCHANGED <<reconVars, vmVars, mainVars, target_kva_, cycles,
                           gadget>>

\* what mincore((void *)1, 0, kva) can end with: -1 with errno EINVAL (the
\* outcome the loop expects), -1 with another errno, or 0
MincoreResults ==
  { [rc |-> -1, errno |-> "EINVAL"],
    [rc |-> -1, errno |-> "ENOSYS"],
    [rc |-> 0,  errno |-> "EINVAL"] }

\* variant of the die_on condition that needs both a return of 0 and an
\* errno other than EINVAL
MincoreFatalBoth(r) == r.rc = 0 /\ r.errno # "EINVAL"

\* the die_on condition after the gadget invocation
MincoreFatal(r) == r.rc = 0 \/ r.errno # "EINVAL"

\* cache_prime_thread, one pass of the loop.  The atomic load of target_kva_
\* is the pass's only access to shared memory: the test against the
\* sentinel, the gadget invocation and the die_on after it work on the
\* local copy kva, which lives for one pass.  So a pass is one step, taken
\* at its load.
cache_prime_pass ==
  /\ proc = "running"
  /\ lpc = "loop"
  /\ LET kva == target_kva_
     IN  IF kva = Sentinel
         THEN /\ lpc' = "done"
              /\ UNCHANGED <<reconVars, vmVars, mainVars, target_kva_, cycles,
                             gadget>>
         ELSE \E r \in MincoreResults :
                IF MincoreFatal(r)
                THEN /\ Exit(EXIT_FAILURE)
                     /\ gadget' = Invoked(kva, r)
                     /\ UNCHANGED <<vmVars, allZero>>
                ELSE /\ gadget' = Invoked(kva, r)
                     /\ UNCHANGED <<reconVars, vmVars, mainVars, target_kva_,
                                    lpc, cycles>>

LoaderThread == cache_prime_set_cpu \/ cache_prime_pass

---------------------------------------------------------------------------
(* l1tf_leaker::try_leak_dword                                             *)

\* what the calls into the vCPU made by one try_leak_dword can do: an
\* ioctl fails, or KVM_RUN returns with an exit state and the guest's R9, R11
RunOutcomes ==
  {[ioctl |-> "ok", exit |-> ExpectedExit, r9 |-> g.value, r11 |-> g.sureness] :
      g \in GuestSamples}
  \cup {[ioctl |-> "ok", exit |-> x, r9 |-> SureOne.value, r11 |-> SureOne.sureness] :
      x \in ExitStates \ {ExpectedExit}}
  \cup {[ioctl |-> f, exit |-> NoExit, r9 |-> {}, r11 |-> {}] :
      f \in {"KVM_SET_REGS", "KVM_RUN"}}
  \cup {[ioctl |-> "KVM_GET_REGS", exit |-> ExpectedExit,
         r9 |-> SureOne.value, r11 |-> SureOne.sureness]}

\* the registers try_leak_dword loads before the run
LoadedRegs(pa) ==
  [ZeroRegs EXCEPT !.rflags = Bits(2), !.rdi = get_victim_gva(pa), !.rip = {}]

\* variant of the die_on condition that requires every field to be off
UnexpectedExitAll(st) ==
  /\ st.exit_reason # "KVM_EXIT_IO"
  /\ st.port # guest_result_port
  /\ st.size # 4

\* the die_on condition of try_leak_dword on the exit state st
UnexpectedExit(st) ==
  \/ st.exit_reason # "KVM_EXIT_IO"
  \/ st.port # guest_result_port
  \/ st.size # 4

\* the value_pair try_leak_dword returns
ReturnedPair(r) == [value |-> Trunc32(r.r9), sureness |-> Trunc32(r.r11)]

Call(pa, exit, returned) ==
  [called |-> TRUE, pa |-> pa, exit |-> exit, returned |-> returned]

\* the registers KVM_GET_REGS reads back after a run under outcome o
RegsAfterRun(pa, o) == [LoadedRegs(pa) EXCEPT !.r9 = o.r9, !.r11 = o.r11]

\* whether try_leak_dword returns under outcome o (or ends in die_on)
Returns(o) == o.ioctl = "ok" /\ ~UnexpectedExit(o.exit)

\* the pair try_leak_dword(pa) returns under outcome o
ReturnValue(pa, o) == ReturnedPair(RegsAfterRun(pa, o))

\* try_leak_dword(pa) under outcome o: the effect on the page tables, on
\* the registers given to KVM_SET_REGS and on the kvm_run area, and in last
\* whether the call returned or ended in die_on.  The page table is
\* rewritten first; then the registers are loaded, the guest runs, the
\* registers are read back and the exit state is checked.
try_leak_dword(pa, o) ==
  /\ tables_' = set_victim_pa(tables_, pa)
  /\ victim_pa' = pa
  /\ regs' = LoadedRegs(pa)
  /\ state' = IF o.ioctl \in {"KVM_SET_REGS", "KVM_RUN"} THEN state ELSE o.exit
  /\ last' = Call(pa, IF o.ioctl \in {"KVM_SET_REGS", "KVM_RUN"} THEN NoExit ELSE o.exit,
                  Returns(o))
  /\ UNCHANGED guestVars

---------------------------------------------------------------------------
(* main                                                                    *)

\* variant of the retry budget, one round short
TriesShort == 32 - 1

Tries == 32

Attempts == 16

\* cache_loader loader { ht_0, page_offset_base }
main_loader_ctor ==
  /\ proc = "running"
  /\ pc = "loader_ctor"
  /\ cache_loader_ctor
  /\ pc' = "leaker_ctor"
  /\ UNCHANGED <<reconVars, vmVars, proc, exit_status, argVars, loopVars,
                 output, allZero>>

\* l1tf_leaker leaker: the kvm handles, the vCPU, the page tables, the guest
\* code, CPUID and the long mode registers; any failing step is fatal
main_leaker_ctor ==
  /\ proc = "running"
  /\ pc = "leaker_ctor"
  /\ \E ok \in BOOLEAN :
       IF ~ok \/ page_table_base % page_size # 0
       THEN /\ die_on
            /\ UNCHANGED <<vmVars, allZero>>
       ELSE /\ tables_' = page_table_ctor(page_table_base)
            /\ pc' = "set_cpu"
            /\ UNCHANGED <<reconVars, regs, state, victim_pa, last,
                           guestVars, proc, exit_status, argVars, loopVars,
                           output, allZero, loaderVars>>

\* set_cpu(ht_1), then the word loop starts with offset = 0
main_set_cpu ==
  /\ proc = "running"
  /\ pc = "set_cpu"
  /\ \E rc \in {0, 22} :
       IF rc # 0
       THEN /\ die_on
            /\ UNCHANGED <<vmVars, allZero>>
       ELSE /\ offset' = {}
            /\ pc' = "word"
            /\ UNCHANGED <<reconVars, vmVars, proc, exit_status, argVars,
                           phys, leaked_value, tries, i, rounds, runs, output,
                           allZero, loaderVars>>

\* for (...; offset < size; ...): phys = offset + phys_addr,
\* leaked_value = 0, set_phys_address(phys), and the retry loop starts with
\* tries = 32; or the loop ends.  An execution is followed for MaxWords
\* words, which is all the words of a range of MaxSize bytes.
main_word ==
  /\ proc = "running"
  /\ pc = "word"
  /\ Less64(offset, size) => Len(output) < MaxWords
  /\ IF Less64(offset, size)
     THEN /\ phys' = Add64(offset, phys_addr)
          /\ leaked_value' = {}
          /\ set_phys_address(phys')
          /\ tries' = Tries
          /\ rounds' = 0
          /\ runs' = 0
          /\ pc' = "round"
     ELSE /\ pc' = "return"
          /\ UNCHANGED <<phys, leaked_value, target_kva_, tries, rounds, runs>>
  /\ UNCHANGED <<reconVars, vmVars, proc, exit_status, argVars, offset, i,
                 output, allZero, lpc, cycles, gadget>>

\* variant of the retry loop that keeps one reconstructor across rounds
main_round_stale ==
  /\ proc = "running"
  /\ pc = "round"
  /\ IF leaked_value = {} /\ tries # 0
     THEN /\ i' = 0
          /\ pc' = "attempt"
     ELSE /\ pc' = "write"
          /\ UNCHANGED i
  /\ UNCHANGED <<reconVars, vmVars, proc, exit_status, argVars, offset, phys,
                 leaked_value, tries, rounds, runs, output, allZero,
                 loaderVars>>

\* for (...; not leaked_value and tries; ...): a fresh reconstructor and
\* i = 0; or the retry loop ends
main_round ==
  /\ proc = "running"
  /\ pc = "round"
  /\ IF leaked_value = {} /\ tries # 0
     THEN /\ freq' = FreshFreq
          /\ i' = 0
          /\ pc' = "attempt"
     ELSE /\ pc' = "write"
          /\ UNCHANGED <<freq, i>>
  /\ UNCHANGED <<recorded, vmVars, proc, exit_status, argVars, offset, phys,
                 leaked_value, tries, rounds, runs, output, allZero,
                 loaderVars>>

\* for (int i = 0; i < 16; i++)
\*   reconstructor.record_attempt(leaker.try_leak_dword(phys));
main_attempt ==
  /\ proc = "running"
  /\ pc = "attempt"
  /\ i < Attempts
  /\ \E o \in RunOutcomes :
       /\ try_leak_dword(phys, o)
       /\ IF Returns(o)
          THEN /\ freq' = record_attempt(freq, ReturnValue(phys, o))
               /\ allZero' = (allZero /\ ReturnValue(phys, o) = Silent)
               /\ i' = i + 1
               /\ runs' = runs + 1
               /\ UNCHANGED <<recorded, pc, proc, exit_status, argVars,
                              offset, phys, leaked_value, tries, rounds,
                              output, loaderVars>>
          ELSE /\ die_on
               /\ UNCHANGED allZero

\* leaked_value = reconstructor.get_most_likely_value(); tries--
main_estimate ==
  /\ proc = "running"
  /\ pc = "attempt"
  /\ ~(i < Attempts)
  /\ leaked_value' = get_most_likely_value(freq)
  /\ tries' = tries - 1
  /\ rounds' = rounds + 1
  /\ pc' = "round"
  /\ UNCHANGED <<reconVars, vmVars, proc, exit_status, argVars, offset, phys,
                 i, runs, output, allZero, loaderVars>>

\* variant of the write step that advances the offset by 8
main_write_skip ==
  /\ proc = "running"
  /\ pc = "write"
  /\ output' = Append(output, [pa |-> phys, word |-> leaked_value])
  /\ offset' = Add64(offset, Bits(8))
  /\ pc' = "word"
  /\ UNCHANGED <<reconVars, vmVars, proc, exit_status, argVars, phys,
                 leaked_value, tries, i, rounds, runs, allZero, loaderVars>>

\* std::cout.write(&leaked_value, 4); std::cout.flush(); offset += 4
main_write ==
  /\ proc = "running"
  /\ pc = "write"
  /\ output' = Append(output, [pa |-> phys, word |-> leaked_value])
  /\ offset' = Add64(offset, Bits(4))
  /\ pc' = "word"
  /\ UNCHANGED <<reconVars, vmVars, proc, exit_status, argVars, phys,
                 leaked_value, tries, i, rounds, runs, allZero, loaderVars>>

\* return 0: leaker is destroyed (munmap and close are checked by die_on)
main_return ==
  /\ proc = "running"
  /\ pc = "return"
  /\ \E ok \in BOOLEAN :
       IF ~ok
       THEN /\ die_on
            /\ UNCHANGED <<vmVars, allZero>>
       ELSE /\ pc' = "loader_dtor"
            /\ UNCHANGED <<reconVars, vmVars, proc, exit_status, argVars,
                           loopVars, output, allZero, loaderVars>>

\* ~cache_loader: target_kva_ = ~0ULL
main_loader_dtor ==
  /\ proc = "running"
  /\ pc = "loader_dtor"
  /\ dtor_publish
  /\ pc' = "join"
  /\ UNCHANGED <<reconVars, vmVars, proc, exit_status, argVars, loopVars,
                 output, allZero, lpc, cycles, gadget>>

\* ~cache_loader: prime_thread.join() returns, and main returns 0
main_join ==
  /\ proc = "running"
  /\ pc = "join"
  /\ dtor_join
  /\ Terminate(EXIT_SUCCESS)
  /\ UNCHANGED <<vmVars, allZero>>

MainThread ==
  \/ main_loader_ctor
  \/ main_leaker_ctor
  \/ main_set_cpu
  \/ main_word
  \/ main_round
  \/ main_attempt
  \/ main_estimate
  \/ main_write
  \/ main_return
  \/ main_loader_dtor
  \/ main_join

\* the extended feature leaf of CPUID, 0x80000001 as a word, and its RDTSCP
\* bit in EDX
ExtLeaf == {0, 31}
RDTSCP == 27

\* a kvm_cpuid_entry2: the leaf's number and its ECX and EDX, as words
Leaf(f, c, d) == [function |-> f, ecx |-> c, edx |-> d]

\* no list given to the vCPU yet
NoCpuid == [set |-> FALSE, entries |-> <<>>]

\* the list the backend reports to l1tf: the basic leaf and the extended
\* leaf with SYSCALL, NX and long mode
HostCpuid == <<Leaf({0}, {0}, {4}), Leaf(ExtLeaf, {0}, {11, 20, 29})>>

\* the CPUID state where enable_rdtscp is not followed
CpuidUnset ==
  /\ cpuid_leafs = HostCpuid
  /\ vcpu_cpuid = NoCpuid

\* the timer demo before timeout_vm exists: no timer, no signal, the vCPU
\* not in guest mode
TimerUnset ==
  /\ timer = [armed |-> FALSE, arming |-> 0]
  /\ sigusr1 = {}
  /\ vcpu_ = [running |-> FALSE, rax |-> 0, exit_reason |-> "none"]
  /\ ends = <<>>

\* the page tables, the vCPU and their history before l1tf_leaker exists
VmUnbuilt ==
  /\ tables_ = ZeroFilled
  /\ regs = ZeroRegs
  /\ state = NoExit
  /\ victim_pa = NoVictim
  /\ last = NoCall
  /\ cpu = ResetCpu
  /\ image = guest_code
  /\ trace = NoTrace

\* the locals of main's loops before the loops start
LoopsUnstarted ==
  /\ offset = {}
  /\ phys = {}
  /\ leaked_value = {}
  /\ tries = 0
  /\ i = 0
  /\ rounds = 0
  /\ runs = 0
  /\ output = <<>>
  /\ allZero = TRUE

\* no cache_loader exists
LoaderUnborn ==
  /\ target_kva_ = {}
  /\ lpc = "unborn"
  /\ cycles = 0

\* the state at the first statement of main after the argument checks
Init ==
  /\ freq = FreshFreq
  /\ recorded = EmptyBag
  /\ VmUnbuilt
  /\ pc = "loader_ctor"
  /\ proc = "running"
  /\ exit_status = None
  /\ page_offset_base \in PageOffsetBases
  /\ phys_addr \in PhysAddrs
  /\ size \in Sizes
  /\ LoopsUnstarted
  /\ LoaderUnborn
  /\ gadget = Untracked
  /\ CpuidUnset
  /\ TimerUnset

Next == MainThread \/ LoaderThread

Spec == Init /\ [][Next]_vars

---------------------------------------------------------------------------
(* The value_reconstructor on its own: any sequence of record_attempt calls *)
(* on one reconstructor.                                                    *)

MaxSamples == 16

\* the word the scripted samples are taken from: its low byte is 0xA5
TargetWord == {0, 2, 5, 7, 12, 31}

\* a sample that reports every bit of TargetWord with confidence
Full == [value |-> TargetWord, sureness |-> W32]

\* samples that report TargetWord with 6 of the 32 bits ambiguous; an
\* ambiguous bit of value is set when both probe lines were seen cached
AmbLow == [value |-> (TargetWord \ {0, 1, 8, 9, 30, 31}) \cup {1, 8},
           sureness |-> W32 \ {0, 1, 8, 9, 30, 31}]
AmbZero == [value |-> (TargetWord \ {1, 3, 4, 6, 20, 21}) \cup {3},
            sureness |-> W32 \ {1, 3, 4, 6, 20, 21}]

\* a sample that is confident and wrong about TargetWord in bits 0, 1, 2, 4, 7
Wrong == [value |-> {1, 4}, sureness |-> {0, 1, 2, 4, 7}]

ReconSamples == {Full, AmbLow, AmbZero, Wrong, Silent}

ReconInit ==
  /\ freq = FreshFreq
  /\ recorded = EmptyBag
  /\ VmUnbuilt
  /\ pc = "idle"
  /\ proc = "running"
  /\ exit_status = None
  /\ page_offset_base = LinearMapBase
  /\ phys_addr = {}
  /\ size = {}
  /\ LoopsUnstarted
  /\ LoaderUnborn
  /\ gadget = Untracked
  /\ CpuidUnset
  /\ TimerUnset

\* reconstructor.record_attempt(e)
ReconRecord ==
  /\ BagCardinality(recorded) < MaxSamples
  /\ \E e \in ReconSamples :
       /\ freq' = record_attempt(freq, e)
       /\ recorded' = recorded (+) SetToBag({e})
  /\ UNCHANGED <<vmVars, mainVars, loaderVars>>

ReconNext == ReconRecord

ReconSpec == ReconInit /\ [][ReconNext]_vars

\* the sum of f over the set S
RECURSIVE Sum(_, _)
Sum(f, S) ==
  IF S = {} THEN 0
  ELSE LET x == CHOOSE y \in S : TRUE IN f[x] + Sum(f, S \ {x})

\* the number of recorded samples that satisfy P
Count(P(_)) ==
  Sum([e \in BagToSet(recorded) |-> IF P(e) THEN CopiesIn(e, recorded) ELSE 0],
      BagToSet(recorded))

\* the recorded samples that report bit b as a confident 0, as a confident 1
ZeroVotes(b) == LET P(e) == b \in e.sureness /\ b \notin e.value IN Count(P)
OneVotes(b)  == LET P(e) == b \in e.sureness /\ b \in e.value IN Count(P)

\* C1: for every recorded sequence and every bit position,
\* get_most_likely_value() sets the bit exactly when its one-votes strictly
\* exceed its zero-votes: a strict majority of confident 1-reports sets it,
\* a strict majority of confident 0-reports and an exact tie clear it.
C1_MajorityVote ==
  \A b \in 0..31 :
    (b \in get_most_likely_value(freq)) <=> (OneVotes(b) > ZeroVotes(b))

\* a 1-majority, a 0-majority and a tie, each with votes on both sides
C1_Witness ==
  /\ \E b \in 0..31 : OneVotes(b) > ZeroVotes(b) /\ ZeroVotes(b) > 0
                      /\ b \in get_most_likely_value(freq)
  /\ \E b \in 0..31 : ZeroVotes(b) > OneVotes(b) /\ OneVotes(b) > 0
                      /\ b \notin get_most_likely_value(freq)
  /\ \E b \in 0..31 : ZeroVotes(b) = OneVotes(b) /\ OneVotes(b) > 0
                      /\ b \notin get_most_likely_value(freq)

\* C2: a bit whose sureness bit is clear in every recorded sample is 0 in
\* get_most_likely_value(), whatever the value bits of the samples are.
C2_NoInformationIsZero ==
  \A b \in 0..31 :
    (\A e \in BagToSet(recorded) : b \notin e.sureness)
      => b \notin get_most_likely_value(freq)

\* samples were recorded, and some bit was never confident although a
\* sample had it set in value
C2_Witness ==
  /\ BagCardinality(recorded) >= 2
  /\ \E b \in 0..31 :
       /\ \A e \in BagToSet(recorded) : b \notin e.sureness
       /\ \E e \in BagToSet(recorded) : b \in e.value

\* C3: after any sequence of record_attempt calls, the zero-vote counter of
\* each bit is the number of recorded samples with that sureness bit set and
\* that value bit clear, the one-vote counter the number with both set; so a
\* sample whose sureness bit is clear counts in neither.
C3_CountersCountSureSamples ==
  \A b \in 0..31 :
    /\ freq[b].first = ZeroVotes(b)
    /\ freq[b].second = OneVotes(b)

\* some bit has zero-votes, one-votes and samples that were not sure of it
C3_Witness ==
  \E b \in 0..31 :
    /\ freq[b].first > 0
    /\ freq[b].second > 0
    /\ freq[b].first + freq[b].second < BagCardinality(recorded)

\* every recorded sample reports at least 80% of the 32 bit positions with
\* confidence, reports those as TargetWord has them, and is ambiguous about
\* the rest
ConfidentAndCorrect(e) ==
  /\ 5 * Cardinality(e.sureness) >= 4 * 32
  /\ e.value \cap e.sureness = TargetWord \cap e.sureness

SixteenNoisySamples ==
  /\ BagCardinality(recorded) = 16
  /\ \A e \in BagToSet(recorded) : ConfidentAndCorrect(e)

LowByte(w) == w \cap (0..7)

\* C4 as stated: 16 samples of a word with low byte 0xA5, each 80% confident
\* and correct and otherwise ambiguous, reconstruct to a value with low
\* byte 0xA5.
C4_AsStated ==
  SixteenNoisySamples => LowByte(get_most_likely_value(freq)) = {0, 2, 5, 7}

\* C4: 16 samples of a word with low byte 0xA5, each 80% confident and
\* correct and otherwise ambiguous, reconstruct to a value with low byte
\* 0xA5 exactly when each 1-bit of the low byte is reported with confidence
\* by at least one of the samples; a 1-bit that is ambiguous in all 16
\* samples is reconstructed as 0.
C4_NoisyLowByte ==
  SixteenNoisySamples =>
    ( LowByte(get_most_likely_value(freq)) = {0, 2, 5, 7}
      <=> \A b \in {0, 2, 5, 7} : \E e \in BagToSet(recorded) : b \in e.sureness )

\* 16 noisy samples with different ambiguous positions, none of them fully
\* confident, that reconstruct the low byte
C4_Witness ==
  /\ SixteenNoisySamples
  /\ \A e \in BagToSet(recorded) : e.sureness # W32
  /\ Cardinality(BagToSet(recorded)) = 2
  /\ LowByte(get_most_likely_value(freq)) = {0, 2, 5, 7}

---------------------------------------------------------------------------
(* The driving loop of main                                                 *)

\* main has returned 0
Returned == proc = "exited" /\ exit_status = EXIT_SUCCESS

\* main has left the loop over the words without a die_on
Finished == pc \in {"return", "loader_dtor", "join"} \/ Returned

\* the number a small word stands for
Val(w) == Sum([k \in w |-> 2^k], w)

\* C5: when every sample try_leak_dword returned was all-zero with no
\* confident bit, a word is written only after exactly 32 rounds of 16 runs
\* each and is zero; over an 8-byte range the output is then exactly 8 zero
\* bytes, two zero words.
C5_AllZeroSamples ==
  /\ (pc = "write" /\ allZero)
       => (rounds = 32 /\ runs = 32 * 16 /\ leaked_value = {})
  /\ allZero => \A k \in 1..Len(output) : output[k].word = {}
  /\ (Finished /\ allZero /\ size = Bits(8)) => Len(output) = 2

\* main returned after an 8-byte range of all-zero samples
C5_Witness ==
  /\ Returned
  /\ allZero
  /\ size = Bits(8)
  /\ Len(output) = 2
  /\ \A k \in 1..2 : output[k].word = {}

\* C6: for each word at most 32 rounds are made; a round records exactly 16
\* samples into a reconstructor whose counters all start at zero; a round is
\* under way only while every earlier estimate of the word was zero, so the
\* loop stops after the first round with a non-zero estimate (or after round
\* 32); and the word written is the estimate of the last round made.
C6_RetryRounds ==
  /\ rounds <= 32
  /\ pc = "attempt" =>
       /\ rounds < 32
       /\ i <= 16
       /\ runs = 16 * rounds + i
       /\ leaked_value = {}
       /\ i = 0 => freq = FreshFreq
       /\ \A b \in 0..31 : freq[b].first + freq[b].second <= i
  /\ pc \in {"round", "write"} => runs = 16 * rounds
  /\ pc = "write" =>
       /\ rounds >= 1
       /\ leaked_value # {} \/ rounds = 32
       /\ leaked_value = get_most_likely_value(freq)
  /\ (pc = "word" /\ output # <<>>) =>
       output[Len(output)].word = get_most_likely_value(freq)

\* the loop stopped early, on a non-zero estimate that followed zero ones
C6_Witness ==
  /\ pc = "write"
  /\ rounds > 1
  /\ rounds < 32
  /\ leaked_value # {}

\* main is at the head of the loop over the words or past the loop: the
\* states in which every word probed so far has been written
BetweenWords == pc = "word" \/ Finished

\* C7 as stated: the words are written in increasing address order, one per
\* probed offset, and the bytes written are exactly those of
\* [start, start + length).
C7_AsStated ==
  BetweenWords =>
    /\ \A k \in 1..Len(output) : output[k].pa = Add64(phys_addr, Bits(4 * (k - 1)))
    /\ \A k \in 1..(Len(output) - 1) : Less64(output[k].pa, output[k + 1].pa)
    /\ Finished => 4 * Len(output) = Val(size)

\* C7: for every start address and length, whatever the retry outcomes, one
\* 4-byte word is written per probed offset 0, 4, 8, ... below length, in
\* that order; word k is the estimate for the address start + 4k modulo
\* 2^64; so the bytes written are those of
\* [start, start + 4 * ceil(length / 4)), up to 3 bytes beyond
\* start + length when length is no multiple of 4.
C7_SequentialWords ==
  BetweenWords =>
    /\ \A k \in 1..Len(output) : output[k].pa = Add64(phys_addr, Bits(4 * (k - 1)))
    /\ pc = "word" => offset = Bits(4 * Len(output))
    /\ Finished =>
         /\ 4 * Len(output) >= Val(size)
         /\ 4 * Len(output) < Val(size) + 4

\* main returned after a range whose length is no multiple of 4 and wrote
\* whole words, more bytes than the length
C7_Witness ==
  /\ Returned
  /\ Val(size) % 4 # 0
  /\ Len(output) >= 1
  /\ 4 * Len(output) > Val(size)
  /\ output[1].pa = phys_addr

\* C8: a run of the guest that ends in any exit other than an I/O exit to
\* port 0 of size 4 ends the process with failure inside try_leak_dword;
\* the call then returns no sample, and a call that did return saw exactly
\* that exit.
C8_UnexpectedExitTerminates ==
  last.called =>
    LET expected == /\ last.exit.exit_reason = "KVM_EXIT_IO"
                    /\ last.exit.port = 0
                    /\ last.exit.size = 4
    IN  /\ last.returned => expected
        /\ (last.exit # NoExit /\ ~expected) =>
             /\ ~last.returned
             /\ proc = "exited"
             /\ exit_status = EXIT_FAILURE

\* an I/O exit to port 0 whose size alone is off ended the process after
\* samples had been written
C8_Witness ==
  /\ last.called
  /\ last.exit = [exit_reason |-> "KVM_EXIT_IO", port |-> 0, size |-> 2]
  /\ ~last.returned
  /\ proc = "exited"
  /\ Len(output) > 0

\* a call of try_leak_dword(phys) that follows a call with the same address
SameAddressAgain ==
  /\ pc = "attempt"
  /\ last.called
  /\ last.returned
  /\ victim_pa = phys
  /\ runs' = runs + 1 \/ proc' = "exited"

\* C10: a call of set_victim_pa that follows a call with the same pa leaves
\* the page tables as they are: the leaf entry is the same, no word of the
\* top three levels (the words below pt) changes, and get_victim_gva(pa),
\* loaded into RDI, is the same.
C10_SetVictimPaIdempotent ==
  [][SameAddressAgain =>
       /\ Rd(tables_', pt + 0) = Rd(tables_, pt + 0)
       /\ \A k \in (DOMAIN tables_) \cup (DOMAIN tables_') :
            k < pt => Rd(tables_', k) = Rd(tables_, k)
       /\ tables_' = tables_
       /\ regs'.rdi = regs.rdi]_vars

\* set_victim_pa has run at least twice in a row with the same address, and
\* the leaf entry maps the page of that address
C10_Witness ==
  /\ proc = "running"
  /\ last.called
  /\ victim_pa = phys
  /\ runs >= 2
  /\ Rd(tables_, pt + 0) = (phys \ OffsetMask) \cup Bits(96)
  /\ get_victim_gva(victim_pa) = regs.rdi

---------------------------------------------------------------------------
(* The cache_loader on its own: an owner that constructs a cache_loader,   *)
(* calls set_phys_address any number of times, each time followed by calls *)
(* of try_leak_dword for that address as in main's loops, and destroys it, *)
(* cycle after cycle, next to the loader thread.                           *)

MaxRuns == 2

MaxCycles == 4

\* the physical address whose kernel address is the sentinel:
\* 0x0000777fffffffff + 0xffff888000000000 = ~0
SentinelPa == W64 \ LinearMapBase

OwnerAddrs == PhysAddrs \cup {SentinelPa}

\* the bases the owner is started with: LinearMapBase and 0xffff880000000000
OwnerBases == {LinearMapBase, {43} \cup (47..63)}

LoaderInit ==
  /\ freq = FreshFreq
  /\ recorded = EmptyBag
  /\ VmUnbuilt
  /\ pc = "none"
  /\ proc = "running"
  /\ exit_status = None
  /\ page_offset_base \in OwnerBases
  /\ phys_addr = {}
  /\ size = {}
  /\ LoopsUnstarted
  /\ LoaderUnborn
  /\ gadget = NoGadget
  /\ CpuidUnset
  /\ TimerUnset

\* cache_loader loader { cpu, page_offset_base }
owner_construct ==
  /\ proc = "running"
  /\ pc = "none"
  /\ cycles < MaxCycles
  /\ cache_loader_ctor
  /\ pc' = "alive"
  /\ UNCHANGED <<reconVars, vmVars, proc, exit_status, argVars, loopVars,
                 output, allZero>>

\* phys = ...; loader.set_phys_address(phys): a new word
owner_set_phys_address ==
  /\ proc = "running"
  /\ pc \in {"alive", "word"}
  /\ \E pa \in OwnerAddrs :
       /\ phys' = pa
       /\ set_phys_address(pa)
  /\ runs' = 0
  /\ pc' = "word"
  /\ UNCHANGED <<reconVars, vmVars, proc, exit_status, argVars, offset,
                 leaked_value, tries, i, rounds, output, allZero, lpc, cycles,
                 gadget>>

\* variant of owner_try_leak_dword that waits until the loader thread has
\* called the gadget with the published target
owner_try_leak_dword_synced ==
  /\ proc = "running"
  /\ pc = "word"
  /\ runs < MaxRuns
  /\ gadget.kva = target_kva_
  /\ \E o \in RunOutcomes :
       /\ try_leak_dword(phys, o)
       /\ IF Returns(o)
          THEN /\ runs' = runs + 1
               /\ UNCHANGED <<reconVars, pc, proc, exit_status, argVars,
                              offset, phys, leaked_value, tries, i, rounds,
                              output, allZero, loaderVars>>
          ELSE /\ die_on
               /\ UNCHANGED allZero

\* leaker.try_leak_dword(phys): a guest run for the current word, from the
\* call to its return (or to the die_on inside)
owner_try_leak_dword ==
  /\ proc = "running"
  /\ pc = "word"
  /\ runs < MaxRuns
  /\ \E o \in RunOutcomes :
       /\ try_leak_dword(phys, o)
       /\ IF Returns(o)
          THEN /\ runs' = runs + 1
               /\ UNCHANGED <<reconVars, pc, proc, exit_status, argVars,
                              offset, phys, leaked_value, tries, i, rounds,
                              output, allZero, loaderVars>>
          ELSE /\ die_on
               /\ UNCHANGED allZero

\* ~cache_loader up to the call of join
owner_destroy ==
  /\ proc = "running"
  /\ pc \in {"alive", "word"}
  /\ dtor_publish
  /\ pc' = "join"
  /\ UNCHANGED <<reconVars, vmVars, proc, exit_status, argVars, loopVars,
                 output, allZero, lpc, cycles, gadget>>

\* prime_thread.join() returns and the destructor ends
owner_join ==
  /\ proc = "running"
  /\ pc = "join"
  /\ dtor_join
  /\ lpc' = "joined"
  /\ pc' = "none"
  /\ UNCHANGED <<reconVars, vmVars, proc, exit_status, argVars, loopVars,
                 output, allZero, target_kva_, cycles,
                 gadget>>

Owner ==
  \/ owner_construct
  \/ owner_set_phys_address
  \/ owner_try_leak_dword
  \/ owner_destroy
  \/ owner_join

LoaderNext == Owner \/ LoaderThread

LoaderSpec == LoaderInit /\ [][LoaderNext]_vars

\* the loader thread is scheduled, and join returns once the thread has ended
FairLoaderSpec ==
  /\ LoaderSpec
  /\ WF_vars(cache_prime_set_cpu)
  /\ WF_vars(cache_prime_pass)
  /\ WF_vars(owner_join)

\* C9 as stated: once the destructor has published the sentinel, the loader
\* thread reads it, leaves its loop and ends, and join completes.
C9_AsStated == (pc = "join") ~> (lpc = "joined")

\* C9: once the destructor has published the sentinel, either the loader
\* thread reads it, leaves its loop and ends, and join completes, or a
\* die_on in the loader thread (set_cpu failing in a thread that starts
\* late, the gadget call failing) ends the whole process; the destructor
\* never blocks for ever, in every interleaving and in every
\* construct/destroy cycle.
C9_ShutdownCompletes ==
  /\ (pc = "join") ~> (lpc = "joined" \/ proc = "exited")
  /\ [][(pc = "join" /\ pc' = "none") => (lpc = "done" /\ target_kva_ = Sentinel)]_vars

\* a second cache_loader has been destroyed and joined
C9_Witness ==
  /\ lpc = "joined"
  /\ pc = "none"
  /\ cycles >= 2
  /\ target_kva_ = Sentinel
  /\ proc = "running"

\* a step in which a guest run for the current word returns its sample
RunReturns == proc = "running" /\ pc = "word" /\ runs' = runs + 1

\* C18: nothing makes a guest run wait for the loader thread.  Once a word
\* is published, try_leak_dword for it can be called and can return in
\* every state, whatever the loader thread has done: also when the thread
\* has not read the new target and its latest gadget call was for an
\* earlier target or there was none; and the run neither moves the loader
\* thread nor changes what its latest gadget call was for.
C18_RunDoesNotWaitForLoader ==
  /\ []((proc = "running" /\ pc = "word" /\ runs < MaxRuns) =>
          ENABLED owner_try_leak_dword)
  /\ [][RunReturns =>
          /\ gadget' = gadget
          /\ lpc' = lpc
          /\ target_kva_' = target_kva_]_vars

\* the first run for the word at 2^64-4 has returned; the loader thread is
\* in its loop and its latest gadget call was for the word published
\* before, 0x000d0ffe
C18_Witness ==
  /\ proc = "running"
  /\ pc = "word"
  /\ lpc = "loop"
  /\ runs = 1
  /\ last.called
  /\ last.returned
  /\ last.pa = phys
  /\ phys = 2..63
  /\ target_kva_ = Add64(phys, page_offset_base)
  /\ gadget.kva = Add64((1..11) \cup {16, 18, 19}, page_offset_base)
  /\ gadget.kva # target_kva_

---------------------------------------------------------------------------
(* The address published to the cache loader                               *)

\* a step of main in which try_leak_dword is called for the current word
RunStep == proc = "running" /\ pc = "attempt" /\ last' # last

\* C17: at the start of every round of runs for word p (the first round
\* and every retry) the target last published to the loader is p plus the
\* base of the linear mapping (mod 2^64), and no step taken inside the
\* retry loop by either thread (a round's start, a guest run, an estimate,
\* a pass of the loader) changes the word or the target while the process
\* runs: so the target is p's at every guest run for p.  The target is
\* published in the step that starts the word, before the word's first
\* run; the only other store is the destructor's.
C17_TargetIsCurrentWord ==
  /\ []((proc = "running" /\ pc = "round") =>
          target_kva_ = Add64(phys, page_offset_base))
  /\ [][(pc \in {"round", "attempt"} /\ proc' = "running") =>
          /\ phys' = phys
          /\ target_kva_' = target_kva_
          /\ page_offset_base' = page_offset_base]_vars
  /\ [][RunStep => (last'.pa = phys /\ victim_pa' = phys)]_vars
  /\ [][(target_kva_' # target_kva_ /\ proc' = "running") =>
          \/ pc = "word" /\ pc' = "round" /\ runs' = 0 /\ rounds' = 0
          \/ pc = "loader_dtor"]_vars

\* the second word is in its second round of runs, and the published
\* target is still that word's address in the linear mapping
C17_Witness ==
  /\ proc = "running"
  /\ pc = "attempt"
  /\ offset = Bits(4)
  /\ rounds = 1
  /\ runs > Attempts
  /\ last.called
  /\ last.returned
  /\ last.pa = phys
  /\ target_kva_ = Add64(phys, page_offset_base)
  /\ target_kva_ # phys

---------------------------------------------------------------------------
(* The guest and l1tf_leaker::try_leak_dword step by step: the host's      *)
(* statements of one call, and between KVM_RUN and its return the guest's  *)
(* code, block by block.                                                   *)

\* the number a word below 2^31 stands for
RECURSIVE Num(_)
Num(w) == IF w = {} THEN 0 ELSE LET k == SetMax(w) IN 2^k + Num(w \ {k})

\* sregs.cr3 = page_table_base
cr3 == page_table_base

\* the 9-bit table index a guest-virtual address has at the level whose
\* index field starts at bit lo (39, 30, 21, 12)
Index(gva, lo) == Num({k - lo : k \in gva \cap (lo..(lo + 8))})

\* the fields of a paging-structure entry the walk looks at
Present(e) == 0 \in e
Large(e) == 7 \in e
Frame(e) == e \cap (12..51)

\* the word of tables_ that holds entry idx of the table at guest-physical
\* address addr; -1 when addr is outside the memory region of tables_
TableWord(addr, idx) ==
  IF /\ addr \subseteq 0..30
     /\ Num(addr) >= page_table_base
     /\ Num(addr) < page_table_base + 4 * page_size
  THEN (Num(addr) - page_table_base) \div 8 + idx
  ELSE -1

\* the four-level walk of gva the MMU makes from CR3 = root through the
\* tables T: the words of tables_ it reads, how it ends ("large": a large
\* page maps gva, "page": a leaf entry maps it, "fault": an entry without
\* the present bit), and the physical address the last entry gives for gva
Walk(T, root, gva) ==
  LET w4 == TableWord(root, Index(gva, 39))
      e4 == Rd(T, w4)
      w3 == TableWord(Frame(e4), Index(gva, 30))
      e3 == Rd(T, w3)
      w2 == TableWord(Frame(e3), Index(gva, 21))
      e2 == Rd(T, w2)
      w1 == TableWord(Frame(e2), Index(gva, 12))
      e1 == Rd(T, w1)
      End(how, words, pa) == [end |-> how, words |-> words, pa |-> pa]
  IN  IF ~Present(e4) THEN End("fault", <<w4>>, Frame(e4))
      ELSE IF ~Present(e3) THEN End("fault", <<w4, w3>>, Frame(e3))
      ELSE IF Large(e3)
        THEN End("large", <<w4, w3>>, (e3 \cap (30..51)) \cup (gva \cap (0..29)))
      ELSE IF ~Present(e2) THEN End("fault", <<w4, w3, w2>>, Frame(e2))
      ELSE IF Large(e2)
        THEN End("large", <<w4, w3, w2>>, (e2 \cap (21..51)) \cup (gva \cap (0..20)))
      ELSE IF ~Present(e1)
        THEN End("fault", <<w4, w3, w2, w1>>, Frame(e1) \cup (gva \cap (0..11)))
      ELSE End("page", <<w4, w3, w2, w1>>, Frame(e1) \cup (gva \cap (0..11)))

\* the accessed and dirty bits the MMU sets for the walk w: accessed (bit 5)
\* in every present entry it goes through, dirty (bit 6) in the entry that
\* maps the address when the access is a write; as bits of word k of T
MarkBits(T, w, write, k) ==
  LET n == Len(w.words)
      hit == {j \in 1..n : w.words[j] = k}
  IN  IF hit = {} \/ ~Present(Rd(T, k)) THEN {}
      ELSE {5} \cup (IF write /\ n \in hit /\ w.end # "fault" THEN {6} ELSE {})

\* tables_ after the MMU has made the walks of ws (each with its kind of
\* access) through them
MarkAll(T, ws) ==
  [k \in DOMAIN T |-> T[k] \cup UNION {MarkBits(T, x.walk, x.write, k) : x \in ws}]

\* the physical addresses try_leak_dword is called with: those of PhysAddrs,
\* 0, and 0x0008008040000fff (bits above the page offset set, bit 30 too)
GuestAddrs == PhysAddrs \cup {{}, (0..11) \cup {30, 39, 51}}

\* what the two timed reads of one probe find: whether the line of target0
\* and the line of target1 answer as cached
Line(c0, c1) == [target0 |-> c0, target1 |-> c1]

\* what the 32 probes of a run find.  Quiet: no line ever cached; Clean:
\* exactly the line TargetWord's bit selects; Busy: both lines every time;
\* Mixed: bit 0 target1, bit 1 both, bit 2 target0, bit 31 target1, the
\* rest neither; OneBit: target1 at bit 0 and nothing else
Quiet == [b \in 0..31 |-> Line(FALSE, FALSE)]
Clean == [b \in 0..31 |-> IF b \in TargetWord THEN Line(FALSE, TRUE) ELSE Line(TRUE, FALSE)]
Busy == [b \in 0..31 |-> Line(TRUE, TRUE)]
Mixed ==
  [b \in 0..31 |->
     CASE b = 0 -> Line(FALSE, TRUE)
       [] b = 1 -> Line(TRUE, TRUE)
       [] b = 2 -> Line(TRUE, FALSE)
       [] b = 31 -> Line(FALSE, TRUE)
       [] OTHER -> Line(FALSE, FALSE)]
OneBit == [b \in 0..31 |-> IF b = 0 THEN Line(FALSE, TRUE) ELSE Line(FALSE, FALSE)]
Observations == {Quiet, Clean, Busy, Mixed, OneBit}

\* the state after l1tf_leaker leaker: the page tables are built, the guest
\* image is mapped, the vCPU has its CPUID and long-mode registers
GuestInit ==
  /\ freq = FreshFreq
  /\ recorded = EmptyBag
  /\ tables_ = page_table_ctor(page_table_base)
  /\ regs = ZeroRegs
  /\ state = NoExit
  /\ victim_pa = NoVictim
  /\ last = NoCall
  /\ cpu = ResetCpu
  /\ image = guest_code
  /\ trace = NoTrace
  /\ pc = "call"
  /\ proc = "running"
  /\ exit_status = None
  /\ page_offset_base = LinearMapBase
  /\ phys_addr = {}
  /\ size = {}
  /\ LoopsUnstarted
  /\ LoaderUnborn
  /\ gadget = Untracked
  /\ CpuidUnset
  /\ TimerUnset

\* the main-thread variables a step of try_leak_dword or of the guest leaves
mainRest == <<proc, exit_status, argVars, offset, phys, leaked_value, tries, i,
              rounds, output, allZero>>

\* try_leak_dword: page_table_.set_victim_pa(phys_addr)
leak_set_victim_pa ==
  /\ proc = "running"
  /\ pc = "call"
  /\ runs < MaxRuns
  /\ \E pa \in GuestAddrs :
       /\ tables_' = set_victim_pa(tables_, pa)
       /\ victim_pa' = pa
  /\ pc' = "set_regs"
  /\ UNCHANGED <<reconVars, regs, state, last, guestVars, mainRest, runs,
                 loaderVars>>

\* variant of SetRegs that loads RIP and RDI only and leaves the other registers
SetRegsPartial(c, r) ==
  [c EXCEPT !.rip = IF r.rip = {} THEN "entry" ELSE "elsewhere",
            !.rdi = r.rdi, !.rbx = "none", !.r10 = "none"]

\* the vCPU's registers after KVM_SET_REGS with r; address 0 is entry
SetRegs(c, r) ==
  [c EXCEPT !.rip = IF r.rip = {} THEN "entry" ELSE "elsewhere",
            !.rdi = r.rdi, !.r8 = 0, !.r9 = r.r9, !.r11 = r.r11,
            !.rbx = "none", !.r10 = "none"]

\* try_leak_dword: kvm_regs regs {}; rflags, rdi, rip; vcpu_.set_regs(regs)
leak_set_regs ==
  /\ proc = "running"
  /\ pc = "set_regs"
  /\ regs' = LoadedRegs(victim_pa)
  /\ \E ok \in BOOLEAN :
       IF ok
       THEN /\ cpu' = SetRegs(cpu, regs')
            /\ pc' = "run"
            /\ UNCHANGED <<reconVars, tables_, state, victim_pa, last, image,
                           trace, mainRest, runs, loaderVars>>
       ELSE /\ die_on
            /\ UNCHANGED <<tables_, state, victim_pa, last, guestVars, allZero>>

\* try_leak_dword: vcpu_.run(), the entry into the guest.  What the probes
\* of this run will find is fixed here.
leak_run ==
  /\ proc = "running"
  /\ pc = "run"
  /\ \E ok \in BOOLEAN :
       IF ok
       THEN /\ \E obs \in Observations :
                 trace' = [obs |-> obs, probes |-> <<>>, outs |-> 0, walks |-> {}]
            /\ cpu' = [cpu EXCEPT !.mode = "guest"]
            /\ runs' = runs + 1
            /\ pc' = "in_guest"
            /\ UNCHANGED <<reconVars, tables_, regs, state, victim_pa, last,
                           image, mainRest, loaderVars>>
       ELSE /\ die_on
            /\ UNCHANGED <<vmVars, allZero>>

\* try_leak_dword: regs = vcpu_.get_regs()
leak_get_regs ==
  /\ proc = "running"
  /\ pc = "get_regs"
  /\ \E ok \in BOOLEAN :
       IF ok
       THEN /\ regs' = RegsAfterRun(victim_pa, cpu)
            /\ pc' = "check"
            /\ UNCHANGED <<reconVars, tables_, state, victim_pa, last,
                           guestVars, mainRest, runs, loaderVars>>
       ELSE /\ die_on
            /\ UNCHANGED <<vmVars, allZero>>

\* try_leak_dword: die_on(unexpected exit), return { r9, r11 }
leak_check ==
  /\ proc = "running"
  /\ pc = "check"
  /\ IF UnexpectedExit(state)
     THEN /\ die_on
          /\ last' = Call(victim_pa, state, FALSE)
          /\ UNCHANGED <<tables_, regs, state, victim_pa, guestVars, allZero>>
     ELSE /\ last' = Call(victim_pa, state, TRUE)
          /\ pc' = "call"
          /\ UNCHANGED <<reconVars, tables_, regs, state, victim_pa,
                         guestVars, mainRest, runs, loaderVars>>

\* the exit of a guest that faulted without a handler (a triple fault)
ShutdownExit == [exit_reason |-> "KVM_EXIT_SHUTDOWN", port |-> 0, size |-> 0]

\* KVM_RUN returns to try_leak_dword with exit state st
VmExit(st) ==
  /\ state' = st
  /\ pc' = "get_regs"

\* the guest-virtual addresses entry reads or writes before the first probe:
\* its code at 0, target0 and target1, and the four page-table frames
EntryAccesses ==
  {Bits(0), Bits(page_size), Bits(2 * page_size)}
    \cup {Bits(cr3 + k * page_size) : k \in 0..3}

\* touch: lock add dword [..], 0 on the first word of the table at base
touch(T, base) == Wr(T, base + 0, Rd(T, base + 0))

\* variant of ClearTargets whose first store writes 1
ClearTargetsOne(img) == [img EXCEPT !.target0 = 1, !.target1 = 0]

\* mov dword [rel target0], 0; mov dword [rel target1], 0
ClearTargets(img) == [img EXCEPT !.target0 = 0, !.target1 = 0]

\* entry up to next_bit: the four touches, the two stores, the pause loop,
\* and R8, R9, R11 cleared.  An access that the tables do not map to itself
\* is a fault the guest has no handler for.  The MMU marks the entries its
\* walks go through; everything but the fetch of the code is a write.
guest_entry ==
  /\ proc = "running"
  /\ cpu.mode = "guest"
  /\ cpu.rip = "entry"
  /\ LET walks == {[gva |-> g, walk |-> Walk(tables_, Bits(cr3), g)] : g \in EntryAccesses}
     IN  IF \E w \in walks : w.walk.end # "large" \/ w.walk.pa # w.gva
         THEN /\ cpu' = [cpu EXCEPT !.mode = "host"]
              /\ VmExit(ShutdownExit)
              /\ trace' = [trace EXCEPT !.walks = walks]
              /\ UNCHANGED <<tables_, image>>
         ELSE /\ LET marked == MarkAll(tables_, {[walk |-> w.walk, write |-> w.gva # Bits(0)] : w \in walks})
                 IN  tables_' = touch(touch(touch(touch(marked, pml4), pdpt), pd), pt)
              /\ image' = ClearTargets(image)
              /\ cpu' = [cpu EXCEPT !.rip = "next_bit", !.rbx = "cr3",
                                    !.r8 = 0, !.r9 = {}, !.r11 = {}]
              /\ trace' = [trace EXCEPT !.walks = walks]
              /\ UNCHANGED <<state, pc>>
  /\ UNCHANGED <<reconVars, regs, victim_pa, last, mainRest, runs, loaderVars>>

\* next_bit up to xbegin: RCX = R8, RBX and R10 point to the probe lines,
\* both lines are flushed, and the transaction begins.  A CPU without RTM
\* raises #UD at the first xbegin, a fault the guest has no handler for.
guest_next_bit ==
  /\ proc = "running"
  /\ cpu.mode = "guest"
  /\ cpu.rip = "next_bit"
  /\ \E rtm \in (IF cpu.r8 = 0 THEN BOOLEAN ELSE {TRUE}) :
       IF rtm
       THEN /\ cpu' = [cpu EXCEPT !.rip = "txn", !.rbx = "target0",
                                  !.r10 = "target1",
                                  !.txn = [active |-> TRUE, rbx |-> "target0",
                                           writes |-> <<>>]]
            /\ trace' = [trace EXCEPT !.probes = Append(@, cpu.r8)]
            /\ UNCHANGED <<state, pc>>
       ELSE /\ cpu' = [cpu EXCEPT !.mode = "host"]
            /\ VmExit(ShutdownExit)
            /\ UNCHANGED trace
  /\ UNCHANGED <<reconVars, tables_, regs, victim_pa, last, image, mainRest,
                 runs, loaderVars>>

\* the transaction's body on a bit read as b: cmovc rbx, r10 and
\* lock inc dword [rbx], the store held back until a commit
Body(c, img, b) ==
  LET line == IF b = 1 THEN c.r10 ELSE c.rbx
  IN  [c EXCEPT !.rbx = line,
                !.txn.writes = Append(@, [line |-> line, value |-> img[line] + 1])]

\* the abort of a transaction: the registers are those of xbegin, the
\* stores held back are dropped, and execution continues at abort
Abort(c) == [c EXCEPT !.rip = "abort", !.rbx = c.txn.rbx, !.txn = NoTxn]

\* the transaction, from bt [rdi], rcx to its abort.  bt walks the tables
\* for RDI: an entry that is not present is a fault, which aborts at once;
\* a mapped address is read, the body runs, and pause aborts.
guest_txn ==
  /\ proc = "running"
  /\ cpu.mode = "guest"
  /\ cpu.rip = "txn"
  /\ LET w == Walk(tables_, Bits(cr3), cpu.rdi)
     IN  /\ trace' = [trace EXCEPT !.walks = @ \cup {[gva |-> cpu.rdi, walk |-> w]}]
         /\ tables_' = MarkAll(tables_, {[walk |-> w, write |-> FALSE]})
         /\ IF w.end = "fault"
            THEN cpu' = Abort(cpu)
            ELSE \E b \in {0, 1} : cpu' = Abort(Body(cpu, image, b))
  /\ UNCHANGED <<reconVars, regs, state, victim_pa, last, image, pc,
                 mainRest, runs, loaderVars>>

\* variant of Vote whose loop ends one bit early (cmp r8, 31)
VoteShort(c, seen) ==
  LET sil == IF seen[c.rbx] THEN 1 ELSE 0
      bl == IF seen[c.r10] THEN 1 ELSE 0
      cl == c.r8 % 32
      esi == 2 * bl + sil
      sure == IF esi = 2 \/ esi = 1 THEN 1 ELSE 0
  IN  [c EXCEPT !.r9 = @ \cup (IF bl = 1 THEN {cl} ELSE {}),
                !.r11 = @ \cup (IF sure = 1 THEN {cl} ELSE {}),
                !.r8 = @ + 1,
                !.rbx = "none",
                !.rip = IF c.r8 + 1 < NBits - 1 THEN "next_bit" ELSE "report"]

\* variant of Vote that takes SIL from [r10] and BL from [rbx]
VoteSwapped(c, seen) ==
  LET sil == IF seen[c.r10] THEN 1 ELSE 0
      bl == IF seen[c.rbx] THEN 1 ELSE 0
      cl == c.r8 % 32
      esi == 2 * bl + sil
      sure == IF esi = 2 \/ esi = 1 THEN 1 ELSE 0
  IN  [c EXCEPT !.r9 = @ \cup (IF bl = 1 THEN {cl} ELSE {}),
                !.r11 = @ \cup (IF sure = 1 THEN {cl} ELSE {}),
                !.r8 = @ + 1,
                !.rbx = "none",
                !.rip = IF c.r8 + 1 < NBits THEN "next_bit" ELSE "report"]

\* abort up to jb next_bit: the two timed reads, of [rbx] into SIL and of
\* [r10] into BL as "was cached"; BL is or-ed into R9 at bit R8; R11 gets
\* bit R8 when (BL << 1 | SIL) is 0b10 or 0b01; R8 is incremented
Vote(c, seen) ==
  LET sil == IF seen[c.rbx] THEN 1 ELSE 0
      bl == IF seen[c.r10] THEN 1 ELSE 0
      cl == c.r8 % 32
      esi == 2 * bl + sil
      sure == IF esi = 2 \/ esi = 1 THEN 1 ELSE 0
  IN  [c EXCEPT !.r9 = @ \cup (IF bl = 1 THEN {cl} ELSE {}),
                !.r11 = @ \cup (IF sure = 1 THEN {cl} ELSE {}),
                !.r8 = @ + 1,
                !.rbx = "none",
                !.rip = IF c.r8 + 1 < NBits THEN "next_bit" ELSE "report"]

guest_vote ==
  /\ proc = "running"
  /\ cpu.mode = "guest"
  /\ cpu.rip = "abort"
  /\ cpu' = Vote(cpu, trace.obs[cpu.r8])
  /\ UNCHANGED <<reconVars, tables_, regs, state, victim_pa, last, image,
                 trace, pc, mainRest, runs, loaderVars>>

\* xor eax, eax; out 0, eax: the exit to the host, RIP at ud2
guest_report ==
  /\ proc = "running"
  /\ cpu.mode = "guest"
  /\ cpu.rip = "report"
  /\ cpu' = [cpu EXCEPT !.mode = "host", !.rip = "ud2"]
  /\ trace' = [trace EXCEPT !.outs = @ + 1]
  /\ VmExit([exit_reason |-> "KVM_EXIT_IO", port |-> 0, size |-> 4])
  /\ UNCHANGED <<reconVars, tables_, regs, victim_pa, last, image, mainRest,
                 runs, loaderVars>>

Leak ==
  \/ leak_set_victim_pa
  \/ leak_set_regs
  \/ leak_run
  \/ leak_get_regs
  \/ leak_check

Guest ==
  \/ guest_entry
  \/ guest_next_bit
  \/ guest_txn
  \/ guest_vote
  \/ guest_report

GuestNext == Leak \/ Guest

GuestSpec == GuestInit /\ [][GuestNext]_vars

\* try_leak_dword has loaded the registers of the current call
RegsLoaded == pc \in {"run", "in_guest", "get_regs", "check"}

\* C11: for every physical address pa, get_victim_gva(pa) has its low 12
\* bits equal to those of pa (pa mod 4096) and is exactly that page offset
\* with bit 30 set; the address loaded into RDI is this function of the
\* call's pa alone, whatever calls came before.
C11_VictimGva ==
  /\ \A pa \in GuestAddrs :
       /\ get_victim_gva(pa) \cap (0..11) = pa \cap (0..11)
       /\ get_victim_gva(pa) = (pa \cap (0..11)) \cup {30}
  /\ RegsLoaded => regs.rdi = (victim_pa \cap (0..11)) \cup {30}

\* the second call, for 0x0008008040000fff, has loaded RDI = 0x40000fff
C11_Witness ==
  /\ RegsLoaded
  /\ runs = 1
  /\ last.called
  /\ victim_pa = (0..11) \cup {30, 39, 51}
  /\ last.pa # victim_pa
  /\ regs.rdi = (0..11) \cup {30}

\* the run try_leak_dword started has come back to the host
RunEnded == pc \in {"get_regs", "check"}

\* the bits probed so far are 0, 1, 2, ... in that order
ProbesInOrder == trace.probes = [k \in 1..Len(trace.probes) |-> k - 1]

\* C12: in every guest run whose transactions begin and abort, the guest
\* probes bits 0, 1, ..., 31 in that order and no more, and only then
\* executes out: one 4-byte OUT to port 0, R9 holding the value and R11 the
\* sureness mask, which are the pair the host reads back and returns.  The
\* guest never executes the instruction after out.
C12_ThirtyTwoProbesThenReport ==
  /\ ProbesInOrder
  /\ Len(trace.probes) <= 32
  /\ trace.outs <= 1
  /\ cpu.mode = "guest" =>
       /\ trace.outs = 0
       /\ cpu.rip # "ud2"
       /\ cpu.rip = "report" <=> (Len(trace.probes) = 32 /\ cpu.r8 = 32)
  /\ (RunEnded /\ trace.probes # <<>>) =>
       /\ Len(trace.probes) = 32
       /\ trace.outs = 1
       /\ state = [exit_reason |-> "KVM_EXIT_IO", port |-> 0, size |-> 4]
       /\ cpu.mode = "host"
  /\ (pc = "check" /\ trace.probes # <<>>) =>
       ReturnedPair(regs) = [value |-> cpu.r9, sureness |-> cpu.r11]
  /\ (pc = "call" /\ last.called /\ last.returned) =>
       /\ trace.outs = 1
       /\ ReturnedPair(regs) = [value |-> cpu.r9, sureness |-> cpu.r11]

\* a run has probed all 32 bits, reported once, and try_leak_dword has
\* returned value 0x80000003 with sureness 0x80000005
C12_Witness ==
  /\ pc = "call"
  /\ last.called
  /\ last.returned
  /\ trace.obs = Mixed
  /\ Len(trace.probes) = 32
  /\ trace.outs = 1
  /\ cpu.rip = "ud2"
  /\ ReturnedPair(regs) = [value |-> {0, 1, 31}, sureness |-> {0, 2, 31}]

\* leaf entry 0 holds the page frame of pa (its bits from 12 up), accessed
\* and dirty, and not the present bit
LeafPointsAt(pa) ==
  /\ Rd(tables_, pt + 0) \ (0..11) = pa \ (0..11)
  /\ Rd(tables_, pt + 0) \cap (0..11) = {5, 6}
  /\ 0 \notin Rd(tables_, pt + 0)

\* a step that enters the guest
RunStarts == cpu.mode = "host" /\ cpu'.mode = "guest"

\* C13: whenever try_leak_dword(phys_addr) starts a guest run, leaf entry 0
\* holds the page frame of phys_addr with the present bit clear, RDI is
\* get_victim_gva(phys_addr) and RIP is 0 (entry); the leaf entry was
\* already in place when the registers were loaded, and neither the load
\* nor the start of the run writes the tables.
C13_RunSetup ==
  /\ [](pc \in {"set_regs", "run", "in_guest"} => LeafPointsAt(victim_pa))
  /\ [](pc \in {"run", "in_guest"} => cpu.rdi = get_victim_gva(victim_pa))
  /\ [][RunStarts =>
          /\ pc = "run"
          /\ LeafPointsAt(victim_pa)
          /\ cpu'.rdi = (victim_pa \cap (0..11)) \cup {30}
          /\ cpu'.rip = "entry"
          /\ regs.rip = {}
          /\ tables_' = tables_]_vars
  /\ [][(pc = "set_regs" /\ cpu' # cpu) =>
          /\ LeafPointsAt(victim_pa)
          /\ tables_' = tables_]_vars

\* the second run, for 0x0008008040000fff after another address, is at
\* entry with the leaf entry 0x0008008040000060 and RDI = 0x40000fff
C13_Witness ==
  /\ pc = "in_guest"
  /\ cpu.mode = "guest"
  /\ cpu.rip = "entry"
  /\ runs = 2
  /\ last.called
  /\ last.pa # victim_pa
  /\ victim_pa = (0..11) \cup {30, 39, 51}
  /\ Rd(tables_, pt + 0) = {5, 6, 30, 39, 51}
  /\ cpu.rdi = (0..11) \cup {30}

\* tables_ as the constructor leaves them
Constructed == page_table_ctor(page_table_base)

\* C14: after construction and any sequence of try_leak_dword calls and
\* guest runs, every word of the top three levels holds the entry the
\* constructor wrote (zero where it wrote none) and every leaf entry other
\* than entry 0 is zero; the only steps that change the tables are those of
\* set_victim_pa inside try_leak_dword, taken on the host before the
\* registers are loaded and the guest runs, and they change leaf entry 0
\* alone.
C14_OnlyLeafEntryZeroChanges ==
  /\ [](/\ DOMAIN tables_ = DOMAIN Constructed
        /\ \A k \in 0..(4 * (page_size \div 8) - 1) :
             /\ k < pt => Rd(tables_, k) = Rd(Constructed, k)
             /\ k > pt => Rd(tables_, k) = {})
  /\ [][tables_' # tables_ =>
          /\ pc = "call"
          /\ pc' = "set_regs"
          /\ cpu.mode = "host"
          /\ cpu' = cpu
          /\ tables_' = set_victim_pa(tables_, victim_pa')
          /\ \A k \in DOMAIN tables_ : k # pt + 0 => tables_'[k] = tables_[k]]_vars

\* two calls for different addresses have returned, the guest has run
\* twice; leaf entry 0 is that of the second call and the identity mapping
\* is the constructor's
C14_Witness ==
  /\ pc = "call"
  /\ runs = 2
  /\ last.called
  /\ last.returned
  /\ cpu.rip = "ud2"
  /\ tables_ # Constructed
  /\ Rd(tables_, pt + 0) = (victim_pa \ (0..11)) \cup {5, 6}
  /\ Rd(tables_, pt + 1) = {}
  /\ Rd(tables_, pdpt + 0) = {0, 1, 5, 6, 7}
  /\ Rd(tables_, pd + 0) = Rd(Constructed, pd + 0)

\* guest-virtual addresses below 1 GB: those entry uses, the last byte
\* below 1 GB, and the first bytes of the second 2 MB and the second 4 KB page
LowAddrs ==
  EntryAccesses \cup {Bits(2^30 - 1), Bits(2^21), Bits(page_size + 1)}

\* C15: in every reachable state the walk of get_victim_gva(pa) reads
\* top-level entry 0, second-level entry 1, third-level entry 0 and ends at
\* leaf entry 0; the walk of an address below 1 GB reads top-level entry 0
\* and second-level entry 0 and ends there, at the large identity page,
\* without reading the third-level or the leaf table.  The walks the guest
\* makes are of these two kinds.
C15_WalkPaths ==
  /\ \A pa \in GuestAddrs :
       LET gva == get_victim_gva(pa)
           w == Walk(tables_, Bits(cr3), gva)
       IN  /\ Index(gva, 39) = 0
           /\ Index(gva, 30) = 1
           /\ Index(gva, 21) = 0
           /\ Index(gva, 12) = 0
           /\ w.words = <<pml4 + 0, pdpt + 1, pd + 0, pt + 0>>
  /\ \A g \in LowAddrs :
       LET w == Walk(tables_, Bits(cr3), g)
       IN  /\ w.words = <<pml4 + 0, pdpt + 0>>
           /\ w.end = "large"
           /\ w.pa = g
  /\ \A x \in trace.walks :
       IF 30 \in x.gva
       THEN x.walk.words = <<pml4 + 0, pdpt + 1, pd + 0, pt + 0>>
       ELSE /\ x.walk.words = <<pml4 + 0, pdpt + 0>>
            /\ x.walk.end = "large"
            /\ \A j \in 1..Len(x.walk.words) : x.walk.words[j] < pd

\* in a run for 0x0008008040000fff the transaction has walked 0x40000fff
\* down to leaf entry 0, and entry has reached target0 through the large page
C15_Witness ==
  /\ cpu.mode = "guest"
  /\ cpu.rip = "abort"
  /\ victim_pa = (0..11) \cup {30, 39, 51}
  /\ \E x \in trace.walks :
       /\ x.gva = (0..11) \cup {30}
       /\ x.walk.words = <<pml4 + 0, pdpt + 1, pd + 0, pt + 0>>
       /\ x.walk.end = "fault"
  /\ \E x \in trace.walks :
       /\ x.gva = Bits(page_size)
       /\ x.walk.words = <<pml4 + 0, pdpt + 0>>
       /\ x.walk.end = "large"

\* a step from abort to the end of the vote on the current bit
VoteStep == cpu.mode = "guest" /\ cpu.rip = "abort" /\ cpu'.rip # "abort"

\* C16: the vote on bit i = R8 after a probe: the sureness bit i is set
\* exactly when one of the two lines was measured as cached and the other
\* not; the value bit i is set exactly when the line of target1 was
\* measured as cached (so a sure bit is 1 for target1 and 0 for target0);
\* no other bit of R9 or R11 changes, and bit i was clear in both before.
C16_VoteEncoding ==
  [][VoteStep =>
       LET b == cpu.r8
           hit0 == trace.obs[b].target0
           hit1 == trace.obs[b].target1
       IN  /\ b \in 0..31
           /\ b \notin cpu.r9 \cup cpu.r11
           /\ b \in cpu'.r11 <=> (hit0 # hit1)
           /\ b \in cpu'.r9 <=> hit1
           /\ (hit1 /\ ~hit0) => (b \in cpu'.r11 /\ b \in cpu'.r9)
           /\ (hit0 /\ ~hit1) => (b \in cpu'.r11 /\ b \notin cpu'.r9)
           /\ (hit0 = hit1) => b \notin cpu'.r11
           /\ cpu'.r9 \ {b} = cpu.r9
           /\ cpu'.r11 \ {b} = cpu.r11
           /\ cpu'.r8 = b + 1]_vars

\* three votes are cast: bit 0 sure 1 (target1 alone), bit 1 unsure with
\* its value bit set (both lines), bit 2 sure 0 (target0 alone)
C16_Witness ==
  /\ cpu.mode = "guest"
  /\ cpu.rip = "next_bit"
  /\ cpu.r8 = 3
  /\ trace.obs = Mixed
  /\ cpu.r9 = {0, 1}
  /\ cpu.r11 = {0, 2}

\* the pair the observations obs of one run determine: value bit b when
\* target1 was found cached at probe b, sureness bit b when one line alone was
PairOf(obs) ==
  [value |-> {b \in 0..31 : obs[b].target1},
   sureness |-> {b \in 0..31 : obs[b].target0 # obs[b].target1}]

\* C19: the pair try_leak_dword returns is made by the run of that call
\* alone.  The host loads zeroed general-purpose registers before every
\* run, the guest clears its bit counter, value and sureness at entry,
\* during the run value and sureness hold the votes of this run's probes
\* so far, and the returned pair is a function of what this run's probes
\* found: two runs that find the same return the same pair.
C19_RunAlone ==
  /\ [](pc = "run" =>
          /\ regs.r9 = {} /\ regs.r11 = {}
          /\ cpu.r8 = 0 /\ cpu.r9 = {} /\ cpu.r11 = {})
  /\ [][(cpu.rip = "entry" /\ cpu'.rip = "next_bit") =>
          (cpu'.r8 = 0 /\ cpu'.r9 = {} /\ cpu'.r11 = {})]_vars
  /\ []((cpu.mode = "guest" /\ cpu.rip # "entry") =>
          /\ cpu.r9 = {b \in 0..(cpu.r8 - 1) : trace.obs[b].target1}
          /\ cpu.r11 = {b \in 0..(cpu.r8 - 1) :
                          trace.obs[b].target0 # trace.obs[b].target1})
  /\ []((pc = "call" /\ last.called /\ last.returned) =>
          ReturnedPair(regs) = PairOf(trace.obs))

\* the second call has returned (1, 1), the pair of a run that found
\* target1 alone at bit 0 and nothing after
C19_Witness ==
  /\ pc = "call"
  /\ runs = 2
  /\ last.called
  /\ last.returned
  /\ trace.obs = OneBit
  /\ ReturnedPair(regs) = [value |-> {0}, sureness |-> {0}]

\* C20: no guest run changes the guest image.  The code is as mapped and
\* the first dwords of target0 and target1 are 0 in every state; the only
\* increment of a probe line is a store held back inside a transaction,
\* and every transaction ends in an abort that drops it, so outside a
\* transaction no store is pending and no step changes the image.
C20_ImageUnchanged ==
  /\ [](/\ image = guest_code
        /\ image.text = "guest.inc"
        /\ image.target0 = 0
        /\ image.target1 = 0)
  /\ [](~cpu.txn.active => cpu.txn.writes = <<>>)
  /\ [](cpu.txn.active => (cpu.mode = "guest" /\ cpu.rip = "txn"))
  /\ [][(cpu.rip = "txn" /\ cpu'.rip # "txn") =>
          (cpu'.rip = "abort" /\ cpu'.txn = NoTxn /\ image' = image)]_vars
  /\ [][image' = image]_vars

\* two runs have ended with their report, 32 transactions each, and the
\* image is the one that was mapped
C20_Witness ==
  /\ pc = "get_regs"
  /\ runs = 2
  /\ Len(trace.probes) = 32
  /\ trace.outs = 1
  /\ cpu.rip = "ud2"
  /\ image = [text |-> "guest.inc", target0 |-> 0, target1 |-> 0]

---------------------------------------------------------------------------
(* Release of the owned resources and the end of the process              *)

\* a step in which the process ends
ExitStep == proc = "running" /\ proc' = "exited"

\* everything main owns has been released: leaker is destroyed (the vCPU
\* mapping unmapped, the descriptors closed), the sentinel is published and
\* the loader thread has ended, so that the join returns
AllReleased ==
  /\ pc = "join"
  /\ target_kva_ = Sentinel
  /\ lpc = "done"

---------------------------------------------------------------------------
(* The gadget calls of the loader thread                                   *)

\* the loader thread has called the gadget since its cache_loader was built
Called == gadget # NoGadget /\ gadget # Untracked

\* the latest gadget call failed with EINVAL
FailedAsExpected == gadget.rc = -1 /\ gadget.errno = "EINVAL"

\* C22: after a gadget call that failed with EINVAL the loader thread is
\* at the head of its loop again in the very step of the call, with no
\* waiting state in between; after a call with any other outcome, a
\* failure with another errno or a return of 0, the process has ended with
\* EXIT_FAILURE in that step.  So while the process runs, the latest call
\* of the thread is one that failed with EINVAL.
C22_OnlyEinvalContinues ==
  /\ []((Called /\ proc = "running") => FailedAsExpected)
  /\ []((Called /\ ~FailedAsExpected) =>
          (proc = "exited" /\ exit_status = EXIT_FAILURE))
  /\ [][(gadget' # gadget /\ gadget' # NoGadget) =>
          /\ lpc = "loop"
          /\ target_kva_ # Sentinel
          /\ gadget'.kva = target_kva_
          /\ IF gadget'.rc = -1 /\ gadget'.errno = "EINVAL"
             THEN lpc' = "loop" /\ proc' = "running" /\ pc' = pc
             ELSE proc' = "exited" /\ exit_status' = EXIT_FAILURE]_vars

\* a gadget call for a published word has failed with ENOSYS and the
\* process has ended with EXIT_FAILURE
C22_Witness ==
  /\ proc = "exited"
  /\ exit_status = EXIT_FAILURE
  /\ gadget.kva = Add64(2..63, page_offset_base)
  /\ gadget.rc = -1
  /\ gadget.errno = "ENOSYS"

\* C23 as stated: the loader thread leaves its loop only after the
\* destructor has published the sentinel, that is while the destructor
\* waits in join; no set_phys_address(pa) of the owner, whatever pa and
\* whatever the base, makes it leave.
C23_AsStated == [][(lpc = "loop" /\ lpc' = "done") => pc = "join"]_vars

\* a step in which the loader thread calls the gadget (and the record of
\* its latest call changes)
CallStep == gadget' # gadget /\ gadget' # NoGadget

\* C24 as stated: every gadget call of the loader thread is made after the
\* owner has published a first word, and against the address pa + base of
\* a published pa.
C24_AsStated ==
  [][CallStep =>
       /\ pc # "alive"
       /\ gadget'.kva = Add64(phys, page_offset_base)]_vars

\* C24: every gadget call of the loader thread is against the value of the
\* target it has just loaded, and that value is never the sentinel: it is
\* pa + base (mod 2^64) of the word the owner has published, or, as long
\* as the owner of this cache_loader has published nothing, the 0 the
\* target is constructed with.
C24_GadgetOnTargetOrZero ==
  /\ [][CallStep =>
          /\ lpc = "loop"
          /\ gadget'.kva = target_kva_
          /\ gadget'.kva # Sentinel
          /\ IF pc = "alive"
             THEN gadget'.kva = {}
             ELSE pc = "word" /\ gadget'.kva = Add64(phys, page_offset_base)]_vars
  /\ [](Called => (gadget.kva \subseteq W64 /\ gadget.kva # Sentinel))

\* the thread of a fresh cache_loader has called the gadget with address
\* 0 and goes on, and no word has been published yet
C24_Witness ==
  /\ proc = "running"
  /\ pc = "alive"
  /\ lpc = "loop"
  /\ cycles = 1
  /\ target_kva_ = {}
  /\ gadget.kva = {}
  /\ gadget.rc = -1
  /\ gadget.errno = "EINVAL"

---------------------------------------------------------------------------
(* The word loop near the end of the 64-bit range.  With a byte count     *)
(* above offset - 4 every multiple of 4 up to offset is visited, so the    *)
(* head of the word loop at offset 2^64-4 is a state main reaches with the *)
(* byte counts of TopSizes; it is taken as a starting state, the history   *)
(* variables restarted, next to the start of main with byte count 0.       *)

---------------------------------------------------------------------------
(* l1tf_leaker::enable_rdtscp on its own, for the lists the backend can    *)
(* report.                                                                 *)

\* the longest supported list
MaxLeafs == 2

\* the leaves 1, 7 and 0x80000001, and the feature words: EDX of the extended leaf with SYSCALL (11), NX (20),
\* RDTSCP (27) and long mode (29); ECX with LAHF (0)
EdxWords == {{}, {RDTSCP}, {11, 20, 29}, {11, 20, RDTSCP, 29}}
EcxWords == {{}, {0}}

Leafs == {Leaf(f, c, d) : f \in {{0}, {0, 1, 2}, ExtLeaf}, c \in EcxWords, d \in EdxWords}

SupportedLists == UNION {[1..n -> Leafs] : n \in 0..MaxLeafs}

\* std::find_if(begin, end, function == 0x80000001): the first such index,
\* or Len + 1 for end()
RECURSIVE find_if(_, _)
find_if(leafs, k) ==
  IF k > Len(leafs) \/ leafs[k].function = ExtLeaf THEN k
  ELSE find_if(leafs, k + 1)

\* a variant that keeps the other bits of EDX
set_rdtscp_or(leafs, k) == [leafs EXCEPT ![k].edx = @ \cup {RDTSCP}]

\* ext_leaf->edx = 1UL << 27
set_rdtscp(leafs, k) == [leafs EXCEPT ![k].edx = {RDTSCP}]

CpuidInit ==
  /\ freq = FreshFreq
  /\ recorded = EmptyBag
  /\ VmUnbuilt
  /\ pc = "enable_rdtscp"
  /\ proc = "running"
  /\ exit_status = None
  /\ page_offset_base = LinearMapBase
  /\ phys_addr = {}
  /\ size = {}
  /\ LoopsUnstarted
  /\ output = <<>>
  /\ allZero = TRUE
  /\ target_kva_ = {}
  /\ lpc = "unborn"
  /\ cycles = 0
  /\ gadget = Untracked
  /\ cpuid_leafs \in SupportedLists
  /\ vcpu_cpuid = NoCpuid
  /\ TimerUnset

\* enable_rdtscp(): get_supported_cpuid, find the extended leaf, write its
\* EDX, set_cpuid; a failing ioctl or a missing leaf is fatal
enable_rdtscp ==
  /\ proc = "running"
  /\ pc = "enable_rdtscp"
  /\ \E get_rc, set_rc \in {0, -1} :
       LET ext_leaf == find_if(cpuid_leafs, 1)
       IN  IF get_rc # 0 \/ ext_leaf = Len(cpuid_leafs) + 1 \/ set_rc # 0
           THEN /\ die_on
                /\ UNCHANGED <<vmVars, allZero>>
           ELSE /\ vcpu_cpuid' = [set |-> TRUE,
                                  entries |-> set_rdtscp(cpuid_leafs, ext_leaf)]
                /\ pc' = "enabled"
                /\ UNCHANGED <<reconVars, vmVars, proc, exit_status,
                               page_offset_base, phys_addr, size, cpuid_leafs,
                               timerVars, loopVars, output, allZero,
                               loaderVars>>

CpuidNext == enable_rdtscp

CpuidSpec == CpuidInit /\ [][CpuidNext]_vars

\* C26 as stated: the list given to the vCPU is the supported list with
\* RDTSCP (EDX bit 27) turned on in the extended leaf, every other feature
\* bit of that leaf and every other leaf as reported; without the extended
\* leaf the process terminates.
C26_AsStated ==
  /\ pc = "enabled" =>
       /\ vcpu_cpuid.set
       /\ \E k \in 1..Len(cpuid_leafs) :
            /\ cpuid_leafs[k].function = ExtLeaf
            /\ vcpu_cpuid.entries = set_rdtscp_or(cpuid_leafs, k)
  /\ (\A k \in 1..Len(cpuid_leafs) : cpuid_leafs[k].function # ExtLeaf) =>
       (pc # "enabled" /\ ~vcpu_cpuid.set)

\* the last multiple of 4 below 2^64
TopOffset == W64 \ {0, 1}

\* the byte counts 2^64-1, 2^64-3 and 2^64-4
TopSizes == {W64, W64 \ {1}, W64 \ {0, 1}}

AtTopOffset ==
  /\ freq = FreshFreq
  /\ recorded = EmptyBag
  /\ tables_ = page_table_ctor(page_table_base)
  /\ regs = ZeroRegs
  /\ state = NoExit
  /\ victim_pa = NoVictim
  /\ last = NoCall
  /\ cpu = ResetCpu
  /\ image = guest_code
  /\ trace = NoTrace
  /\ pc = "word"
  /\ proc = "running"
  /\ exit_status = None
  /\ page_offset_base = LinearMapBase
  /\ phys_addr = Bits(4096)
  /\ size \in TopSizes
  /\ offset = TopOffset
  /\ phys = {}
  /\ leaked_value = {}
  /\ tries = 0
  /\ i = 0
  /\ rounds = 0
  /\ runs = 0
  /\ output = <<>>
  /\ allZero = TRUE
  /\ target_kva_ = {}
  /\ lpc = "loop"
  /\ cycles = 1
  /\ gadget = Untracked
  /\ CpuidUnset
  /\ TimerUnset

WrapInit ==
  \/ Init /\ size = Bits(0)
  \/ AtTopOffset

WrapSpec == WrapInit /\ [][Next]_vars

\* C25 as stated, its part on the order of the words: each step of the
\* word loop from one word to the next goes to a larger offset, so that
\* the offsets below the byte count are visited once each in increasing
\* order and the loop ends.
C25_AsStated == [][(pc = "write" /\ pc' = "word") => Less64(offset, offset')]_vars

---------------------------------------------------------------------------
(* The timer demo: timeout_vm and its main.  The timer and the pending     *)
(* SIGUSR1 are kernel state; SIGUSR1 is blocked in the thread and allowed  *)
(* only inside KVM_RUN, so an expiry leaves it pending until the signalfd  *)
(* is read.                                                                *)

\* the iterations of the guest's loop that are counted
MaxReps == 3

\* the runs main makes
TimerRuns == 2

\* kvm_vcpu::run of the timer demo: KVM_RUN that a signal ends returns
\* EINTR, which is no failure
run_failed(rc, errno) == rc < 0 /\ errno # "EINTR"

TimerInit ==
  /\ freq = FreshFreq
  /\ recorded = EmptyBag
  /\ VmUnbuilt
  /\ pc = "timeout_vm"
  /\ proc = "running"
  /\ exit_status = None
  /\ page_offset_base = LinearMapBase
  /\ phys_addr = {}
  /\ size = {}
  /\ LoopsUnstarted
  /\ output = <<>>
  /\ allZero = TRUE
  /\ target_kva_ = {}
  /\ lpc = "unborn"
  /\ cycles = 0
  /\ gadget = Untracked
  /\ CpuidUnset
  /\ TimerUnset

\* what a step of the timer demo leaves as it is
TimerRest == <<reconVars, vmVars, proc, exit_status, page_offset_base,
               phys_addr, size, cpuidVars, loopVars, output, allZero,
               loaderVars>>

\* die_on in the timer demo: the timer and the signal are the kernel's
TimerDies ==
  /\ die_on
  /\ UNCHANGED <<vmVars, allZero>>

\* timeout_vm vm: the memory region, long mode, timer_create, SIGUSR1
\* blocked and handed to KVM_SET_SIGNAL_MASK, the signalfd; any failing
\* step is fatal
timeout_vm_ctor ==
  /\ proc = "running"
  /\ pc = "timeout_vm"
  /\ \E ok \in BOOLEAN :
       IF ~ok
       THEN TimerDies
       ELSE /\ pc' = "clear"
            /\ UNCHANGED <<TimerRest, timerVars>>

\* a variant that leaves the signal pending
clear_pending_timer_event_skipped ==
  /\ proc = "running"
  /\ pc = "clear"
  /\ \E err \in {"none", "EBADF"} :
       IF err # "none"
       THEN TimerDies
       ELSE /\ pc' = "settime"
            /\ UNCHANGED <<TimerRest, timerVars>>

\* clear_pending_timer_event(), the first call of arm_timer: the read of the
\* non-blocking signalfd takes the pending SIGUSR1, or finds none (EAGAIN);
\* any other error is fatal
clear_pending_timer_event ==
  /\ proc = "running"
  /\ pc = "clear"
  /\ \E err \in {"none", "EBADF"} :
       IF err # "none"
       THEN TimerDies
       ELSE /\ sigusr1' = {}
            /\ pc' = "settime"
            /\ UNCHANGED <<TimerRest, timer, vcpu_, ends>>

\* arm_timer after the read: timer_settime programs the one-shot timeout,
\* which starts running now
arm_timer ==
  /\ proc = "running"
  /\ pc = "settime"
  /\ \E rc \in {0, -1} :
       IF rc # 0
       THEN TimerDies
       ELSE /\ timer' = [armed |-> TRUE, arming |-> timer.arming + 1]
            /\ pc' = "run"
            /\ UNCHANGED <<TimerRest, sigusr1, vcpu_, ends>>

\* the armed timer expires: SIGUSR1 becomes pending, the timer is spent
timer_expires ==
  /\ proc = "running"
  /\ timer.armed
  /\ timer' = [timer EXCEPT !.armed = FALSE]
  /\ sigusr1' = sigusr1 \cup {timer.arming}
  /\ UNCHANGED <<TimerRest, pc, vcpu_, ends>>

\* the rest of run() once KVM_RUN has returned EINTR: exit_reason is
\* KVM_EXIT_INTR, and run() returns RAX
run_rest(immediate, rax) ==
  /\ vcpu_' = [running |-> FALSE, rax |-> rax, exit_reason |-> "KVM_EXIT_INTR"]
  /\ ends' = Append(ends, [by |-> sigusr1, immediate |-> immediate, reps |-> rax])
  /\ pc' = IF Len(ends) + 1 < TimerRuns THEN "clear" ELSE "print"
  /\ UNCHANGED <<TimerRest, timer, sigusr1>>

\* run() up to the entry into the guest: set_regs with RAX = 0 and RIP = 0,
\* then KVM_RUN, which returns at once with EINTR while SIGUSR1 is pending
run ==
  /\ proc = "running"
  /\ pc = "run"
  /\ \E ok \in BOOLEAN :
       IF ~ok
       THEN TimerDies
       ELSE IF sigusr1 # {}
            THEN run_rest(TRUE, 0)
            ELSE /\ vcpu_' = [vcpu_ EXCEPT !.running = TRUE, !.rax = 0]
                 /\ pc' = "in_guest"
                 /\ UNCHANGED <<TimerRest, timer, sigusr1, ends>>

\* slack_off: inc rax; pause; loop slack_off
slack_off ==
  /\ proc = "running"
  /\ vcpu_.running
  /\ vcpu_.rax < MaxReps
  /\ vcpu_' = [vcpu_ EXCEPT !.rax = @ + 1]
  /\ UNCHANGED <<TimerRest, pc, timer, sigusr1, ends>>

\* KVM_RUN returns from the guest: with EINTR once SIGUSR1 is pending, or
\* with an error, or with another exit; then the rest of run()
run_returns ==
  /\ proc = "running"
  /\ pc = "in_guest"
  /\ \E r \in {[rc |-> -1, errno |-> "EINTR", exit_reason |-> "KVM_EXIT_INTR"],
               [rc |-> -1, errno |-> "EFAULT", exit_reason |-> "none"],
               [rc |-> 0, errno |-> "none", exit_reason |-> "KVM_EXIT_SHUTDOWN"]} :
       /\ r.errno = "EINTR" => sigusr1 # {}
       /\ IF run_failed(r.rc, r.errno) \/ r.exit_reason # "KVM_EXIT_INTR"
          THEN TimerDies
          ELSE run_rest(FALSE, vcpu_.rax)

\* main after the second run: the two "Reps:" lines, return 0, and the
\* destructors of vm, whose failing munmap or close is fatal
timer_main_return ==
  /\ proc = "running"
  /\ pc = "print"
  /\ output' = <<ends[1].reps, ends[2].reps>>
  /\ \E ok \in BOOLEAN :
       /\ proc' = "exited"
       /\ exit_status' = IF ok THEN EXIT_SUCCESS ELSE EXIT_FAILURE
       /\ pc' = "exited"
       /\ UNCHANGED <<reconVars, vmVars, page_offset_base, phys_addr, size,
                      cpuidVars, timerVars, loopVars, allZero, loaderVars>>

TimerNext ==
  \/ timeout_vm_ctor
  \/ clear_pending_timer_event
  \/ arm_timer
  \/ timer_expires
  \/ run
  \/ slack_off
  \/ run_returns
  \/ timer_main_return

TimerSpec == TimerInit /\ [][TimerNext]_vars

\* a step of arm_timer that programs the timeout
Programs == timer'.arming = timer.arming + 1

===========================================================================
